---- MODULE Spec2Model ----
(***************************************************************************)
(* Build/test orchestration of the SWE-bench debugger front end.           *)
(*                                                                         *)
(* The tabbed application (App, src/unnamed/part_001:464-675) mounts one   *)
(* SWEBenchTab component (src/unnamed/part_002:158-723) per tab; every     *)
(* mounted tab keeps its own reducer state, reacts to its inputs with      *)
(* effects, and listens on the process-wide event bus.  The container      *)
(* engine, the Dockerfile gateway and the event bus live behind invoke()   *)
(* and listen(): the model keeps their requests in flight and delivers     *)
(* their answers and events in any order the interfaces allow.             *)
(*                                                                         *)
(* Text is a sequence of one-character strings, so that trim(), the image  *)
(* name pattern and the URL derivation are computed, not assumed.          *)
(***************************************************************************)
EXTENDS Integers, Sequences, FiniteSets, Bags, TLC

\* ------------------------------------------------------------------ text

LowerChars == <<"a","b","c","d","e","f","g","h","i","j","k","l","m","n","o","p","q","r","s","t","u","v","w","x","y","z">>

UpperChars == <<"A","B","C","D","E","F","G","H","I","J","K","L","M","N","O","P","Q","R","S","T","U","V","W","X","Y","Z">>

DigitChars == {"0","1","2","3","4","5","6","7","8","9"}

\* String.prototype.trim strips these from both ends.
WhiteSpace == {" ", "\t", "\n", "\r"}

Range(s) == {s[i] : i \in 1..Len(s)}

RECURSIVE TrimStart(_)
TrimStart(s) == IF s # <<>> /\ s[1] \in WhiteSpace THEN TrimStart(Tail(s)) ELSE s

RECURSIVE TrimEnd(_)
TrimEnd(s) == IF s # <<>> /\ s[Len(s)] \in WhiteSpace THEN TrimEnd(SubSeq(s, 1, Len(s) - 1)) ELSE s

\* s.trim()
Trim(s) == TrimEnd(TrimStart(s))

\* !s.trim(): the text is empty or whitespace only
IsBlank(s) == Trim(s) = <<>>

\* s.startsWith(p)
StartsWith(s, p) == Len(s) >= Len(p) /\ SubSeq(s, 1, Len(p)) = p

\* s.endsWith(p)
EndsWith(s, p) == Len(s) >= Len(p) /\ SubSeq(s, Len(s) - Len(p) + 1, Len(s)) = p

\* s.slice(n): s without its first n characters
DropFirst(s, n) == SubSeq(s, n + 1, Len(s))

\* s.indexOf(p), 1-based; 0 when p does not occur
IndexOf(s, p) ==
    LET hits == {i \in 1..(Len(s) - Len(p) + 1) : SubSeq(s, i, i + Len(p) - 1) = p}
    IN IF hits = {} THEN 0 ELSE CHOOSE i \in hits : \A j \in hits : i <= j

\* s.split(c) for a one-character separator
RECURSIVE Split(_, _)
Split(s, c) ==
    LET i == IndexOf(s, <<c>>)
    IN IF i = 0 THEN <<s>> ELSE <<SubSeq(s, 1, i - 1)>> \o Split(DropFirst(s, i), c)

LowerOf(c) == IF \E i \in 1..Len(UpperChars) : UpperChars[i] = c THEN LowerChars[CHOOSE i \in 1..Len(UpperChars) : UpperChars[i] = c] ELSE c

\* s.toLowerCase()
ToLowerCase(s) == [i \in 1..Len(s) |-> LowerOf(s[i])]

\* --------------------------------------------------- validation helpers

\* [a-z0-9]
NameAlnum == Range(LowerChars) \cup DigitChars

\* [a-z0-9._-]
NameInner == NameAlnum \cup {".", "_", "-"}

\* the length limit of validateDockerImageName
MaxImageNameLen == 128

\* [a-z0-9]([a-z0-9._-]*[a-z0-9])?  matched against the whole of s
NameSegment(s) ==
    /\ s # <<>>
    /\ s[1] \in NameAlnum
    /\ s[Len(s)] \in NameAlnum
    /\ \A i \in 1..Len(s) : s[i] \in NameInner

\* dockerNameRegex.test(name): a segment, optionally ':' and a second segment
DockerNameRegex(s) ==
    \/ NameSegment(s)
    \/ \E i \in 1..Len(s) :
        /\ s[i] = ":"
        /\ NameSegment(SubSeq(s, 1, i - 1))
        /\ NameSegment(DropFirst(s, i))

validateDockerImageName_NoLimit(name) == ~IsBlank(name) /\ DockerNameRegex(name)

validateDockerImageName(name) ==
    /\ ~IsBlank(name)
    /\ ~(Len(name) > MaxImageNameLen)
    /\ DockerNameRegex(name)

HttpsGithubCom == <<"h","t","t","p","s",":","/","/","g","i","t","h","u","b",".","c","o","m","/">>

HttpGithubCom == <<"h","t","t","p",":","/","/","g","i","t","h","u","b",".","c","o","m","/">>

GitAtGithubCom == <<"g","i","t","@","g","i","t","h","u","b",".","c","o","m",":">>

HttpsGithubDev == <<"h","t","t","p","s",":","/","/","g","i","t","h","u","b",".","d","e","v","/">>

HttpGithubDev == <<"h","t","t","p",":","/","/","g","i","t","h","u","b",".","d","e","v","/">>

GithubComSlash == <<"g","i","t","h","u","b",".","c","o","m","/">>

DotGit == <<".","g","i","t">>

\* cleanUrl: trimmed, a trailing ".git" removed
CleanUrl(url) ==
    LET t == Trim(url)
    IN IF EndsWith(t, DotGit) THEN SubSeq(t, 1, Len(t) - 4) ELSE t

\* Whether one of the branches that set repoPath is taken.
IsRecognizedUrl(c) ==
    \/ StartsWith(c, HttpsGithubCom) \/ StartsWith(c, HttpGithubCom)
    \/ StartsWith(c, GitAtGithubCom)
    \/ StartsWith(c, HttpsGithubDev) \/ StartsWith(c, HttpGithubDev)
    \/ IndexOf(c, GithubComSlash) # 0

\* repoPath, for a recognized cleanUrl
RepoPath(c) ==
    IF StartsWith(c, HttpsGithubCom) THEN DropFirst(c, Len(HttpsGithubCom))
    ELSE IF StartsWith(c, HttpGithubCom) THEN DropFirst(c, Len(HttpGithubCom))
    ELSE IF StartsWith(c, GitAtGithubCom) THEN DropFirst(c, Len(GitAtGithubCom))
    ELSE IF StartsWith(c, HttpsGithubDev) THEN DropFirst(c, Len(HttpsGithubDev))
    ELSE IF StartsWith(c, HttpGithubDev) THEN DropFirst(c, Len(HttpGithubDev))
    ELSE DropFirst(c, IndexOf(c, GithubComSlash) + Len(GithubComSlash) - 1)

\* the image name of the path parts: user__cleanRepo, or nothing
NameOfParts(pathParts) ==
    IF Len(pathParts) >= 2
    THEN ToLowerCase(pathParts[1]) \o <<"_", "_">> \o Split(Split(ToLowerCase(pathParts[2]), "?")[1], "#")[1]
    ELSE <<>>

\* the image name of a cleanUrl
NameOfCleanUrl(c) == IF ~IsRecognizedUrl(c) THEN <<>> ELSE NameOfParts(Split(RepoPath(c), "/"))

generateImageNameFromGitHubUrl(url) == IF IsBlank(url) THEN <<>> ELSE NameOfCleanUrl(CleanUrl(url))

\* JSON.parse on the specification texts the model types in: whether it returns,
\* and the test_cmd field of the parsed object (absent: the empty text).
DefaultJson == "{\"test_cmd\": \"npm test\", \"log_parser_name\": \"jest\"}"

BrokenJson == "{"

NoTestCmdJson == "{}"

BlankTestCmdJson == "{\"test_cmd\": \" \"}"

JsonTexts == {DefaultJson, BrokenJson, NoTestCmdJson, BlankTestCmdJson}

JsonParse(text) ==
    CASE text = DefaultJson -> [ok |-> TRUE, test_cmd |-> <<"n","p","m"," ","t","e","s","t">>]
      [] text = NoTestCmdJson -> [ok |-> TRUE, test_cmd |-> <<>>]
      [] text = BlankTestCmdJson -> [ok |-> TRUE, test_cmd |-> <<" ">>]
      [] OTHER -> [ok |-> FALSE, test_cmd |-> <<>>]

validateJsonSyntax(jsonString) == JsonParse(jsonString).ok

\* ------------------------------------------------------------ tab state

\* validationError: null, or the message as a sequence of its parts
Null == <<>>

JsonSyntaxError == <<"Invalid JSON syntax. Please fix the JSON before proceeding.">>

JsonSyntaxPlaceholder == <<"# Invalid JSON syntax\n# Please check your JSON format">>

MissingUrlError == <<"GitHub repository URL is required for Dockerfile generation.">>

MissingUrlPlaceholder == <<"# Missing GitHub repository URL\n# Please enter a GitHub repository URL">>

MissingCommitError(useHead) == <<IF useHead THEN "Head" ELSE "Base", " commit is required for Dockerfile generation.">>

MissingCommitPlaceholder(useHead) == <<"# Missing ", IF useHead THEN "head" ELSE "base", " commit\n# Please enter a ", IF useHead THEN "head" ELSE "base", " commit hash">>

\* "# Validation failed\n# " + error.replace(/\n/g, "\n# "), for a one-line error
ValidationFailedEcho(error) == <<"# Validation failed\n# ", error>>

CommunicationError(error) == <<"Failed to communicate with backend: ", error>>

BackendErrorPlaceholder == <<"# Backend error\n# Failed to generate Dockerfile">>

defaultTabState ==
    [ githubRepoUrl |-> <<>>,
      baseCommit |-> <<>>,
      headCommit |-> <<>>,
      jsonSpec |-> DefaultJson,
      imageName |-> <<>>,
      generatedDockerfile |-> <<>>,
      validationError |-> Null,
      isValidJson |-> TRUE,
      useHeadCommit |-> FALSE,
      isBuilding |-> FALSE,
      buildLogs |-> <<>>,
      isValidImageName |-> FALSE,
      shouldAutoScroll |-> TRUE,
      isImageExists |-> FALSE,
      isCheckingImage |-> FALSE,
      isTesting |-> FALSE,
      testLogs |-> <<>>,
      shouldAutoScrollTest |-> TRUE ]

\* tabReducer, one operator per action type the model dispatches
SET_GITHUB_REPO_URL(s, payload) == [s EXCEPT !.githubRepoUrl = payload]

SET_BASE_COMMIT(s, payload) == [s EXCEPT !.baseCommit = payload]

SET_HEAD_COMMIT(s, payload) == [s EXCEPT !.headCommit = payload]

SET_JSON_SPEC(s, payload) == [s EXCEPT !.jsonSpec = payload]

SET_IMAGE_NAME(s, payload) == [s EXCEPT !.imageName = payload]

SET_VALIDATION_ERROR(s, payload) == [s EXCEPT !.validationError = payload]

SET_IS_VALID_JSON(s, payload) == [s EXCEPT !.isValidJson = payload]

SET_USE_HEAD_COMMIT(s, payload) == [s EXCEPT !.useHeadCommit = payload]

SET_IS_BUILDING(s, payload) == [s EXCEPT !.isBuilding = payload]

\* ADD_BUILD_LOG putting the line first
ADD_BUILD_LOG_Prepends(s, payload) == [s EXCEPT !.buildLogs = <<payload>> \o s.buildLogs]

ADD_BUILD_LOG(s, payload) == [s EXCEPT !.buildLogs = Append(s.buildLogs, payload)]

CLEAR_BUILD_LOGS(s) == [s EXCEPT !.buildLogs = <<>>]

SET_IS_VALID_IMAGE_NAME(s, payload) == [s EXCEPT !.isValidImageName = payload]

SET_SHOULD_AUTO_SCROLL(s, payload) == [s EXCEPT !.shouldAutoScroll = payload]

SET_IS_IMAGE_EXISTS(s, payload) == [s EXCEPT !.isImageExists = payload]

SET_IS_CHECKING_IMAGE(s, payload) == [s EXCEPT !.isCheckingImage = payload]

SET_IS_TESTING(s, payload) == [s EXCEPT !.isTesting = payload]

ADD_TEST_LOG(s, payload) == [s EXCEPT !.testLogs = Append(s.testLogs, payload)]

CLEAR_TEST_LOGS(s) == [s EXCEPT !.testLogs = <<>>]

SET_SHOULD_AUTO_SCROLL_TEST(s, payload) == [s EXCEPT !.shouldAutoScrollTest = payload]

\* UPDATE_MULTIPLE with { validationError, generatedDockerfile }
UPDATE_ERROR_AND_DOCKERFILE(s, error, dockerfile) == [s EXCEPT !.validationError = error, !.generatedDockerfile = dockerfile]

\* A log entry: an output line of an engine session (its k-th), or the
\* `ERROR: ${message}` line a handler builds.
OutputLine(kind, sid, k) == [text |-> kind, sid |-> sid, k |-> k, msg |-> ""]

ErrorLine(message) == [text |-> "ERROR: ", sid |-> 0, k |-> 0, msg |-> message]

\* -------------------------------------------------------------- effects
\* An effect reads the state of the render it belongs to (r) and dispatches
\* onto the state being built (acc); what it sends to a collaborator is
\* returned beside the new state.

\* checkImageExists without its validateDockerImageName test
checkImageExists_NoValidation(acc, imageNameToCheck) ==
    IF IsBlank(imageNameToCheck)
    THEN [s |-> SET_IS_IMAGE_EXISTS(acc, FALSE), queries |-> <<>>]
    ELSE [s |-> SET_IS_CHECKING_IMAGE(acc, TRUE), queries |-> <<Trim(imageNameToCheck)>>]

\* checkImageExists up to its await
checkImageExists(acc, imageNameToCheck) ==
    IF IsBlank(imageNameToCheck) \/ ~validateDockerImageName(imageNameToCheck)
    THEN [s |-> SET_IS_IMAGE_EXISTS(acc, FALSE), queries |-> <<>>]
    ELSE [s |-> SET_IS_CHECKING_IMAGE(acc, TRUE), queries |-> <<Trim(imageNameToCheck)>>]

\* useEffect [state.imageName]: image-name validity
ValidityEffect(r, acc) == SET_IS_VALID_IMAGE_NAME(acc, validateDockerImageName(r.imageName))

\* useEffect [state.imageName, state.isValidImageName]: image existence
ExistenceEffect(r, acc) ==
    IF r.imageName # <<>> /\ r.isValidImageName
    THEN checkImageExists(acc, r.imageName)
    ELSE [s |-> SET_IS_IMAGE_EXISTS(acc, FALSE), queries |-> <<>>]

\* The renders that follow a change of imageName: r is the first of them
\* (new name, validity flag still that of the old name); a second render
\* follows when the validity flag changed, and re-runs the existence effect.
SecondRender(r, a) ==
    IF a.s.isValidImageName # r.isValidImageName
    THEN [s |-> ExistenceEffect(a.s, a.s).s, queries |-> a.queries \o ExistenceEffect(a.s, a.s).queries]
    ELSE a

ImageNameChanged(r) == SecondRender(r, ExistenceEffect(r, ValidityEffect(r, r)))

SetIfGenerated_Always(acc, generatedName) == SET_IMAGE_NAME(acc, generatedName)

\* useEffect [state.githubRepoUrl]: image-name derivation
SetIfGenerated(acc, generatedName) == IF generatedName # <<>> THEN SET_IMAGE_NAME(acc, generatedName) ELSE acc

DerivationEffect(r, acc) == SetIfGenerated(acc, generateImageNameFromGitHubUrl(r.githubRepoUrl))

commitToUse(r) == IF r.useHeadCommit THEN r.headCommit ELSE r.baseCommit

\* the arguments of invoke("generate_docker_file", ...) without their trim()
GenerateRequest_Untrimmed(r) == [inputJson |-> r.jsonSpec, githubRepoUrl |-> r.githubRepoUrl, commit |-> commitToUse(r)]

\* the arguments of invoke("generate_docker_file", ...)
GenerateRequest(r) == [inputJson |-> r.jsonSpec, githubRepoUrl |-> Trim(r.githubRepoUrl), commit |-> Trim(commitToUse(r))]

\* generateDockerfile checking the repository URL before the JSON syntax
generateDockerfile_UrlFirst(r, acc) ==
    IF IsBlank(r.githubRepoUrl)
    THEN [s |-> UPDATE_ERROR_AND_DOCKERFILE(SET_IS_VALID_JSON(acc, validateJsonSyntax(r.jsonSpec)), MissingUrlError, MissingUrlPlaceholder), requests |-> <<>>]
    ELSE IF ~validateJsonSyntax(r.jsonSpec)
    THEN [s |-> UPDATE_ERROR_AND_DOCKERFILE(SET_IS_VALID_JSON(acc, FALSE), JsonSyntaxError, JsonSyntaxPlaceholder), requests |-> <<>>]
    ELSE IF IsBlank(commitToUse(r))
    THEN [s |-> UPDATE_ERROR_AND_DOCKERFILE(SET_IS_VALID_JSON(acc, TRUE), MissingCommitError(r.useHeadCommit), MissingCommitPlaceholder(r.useHeadCommit)), requests |-> <<>>]
    ELSE [s |-> SET_VALIDATION_ERROR(SET_IS_VALID_JSON(acc, TRUE), Null), requests |-> <<GenerateRequest(r)>>]

\* generateDockerfile up to its await
generateDockerfile(r, acc) ==
    IF ~validateJsonSyntax(r.jsonSpec)
    THEN [s |-> UPDATE_ERROR_AND_DOCKERFILE(SET_IS_VALID_JSON(acc, FALSE), JsonSyntaxError, JsonSyntaxPlaceholder), requests |-> <<>>]
    ELSE IF IsBlank(r.githubRepoUrl)
    THEN [s |-> UPDATE_ERROR_AND_DOCKERFILE(SET_IS_VALID_JSON(acc, TRUE), MissingUrlError, MissingUrlPlaceholder), requests |-> <<>>]
    ELSE IF IsBlank(commitToUse(r))
    THEN [s |-> UPDATE_ERROR_AND_DOCKERFILE(SET_IS_VALID_JSON(acc, TRUE), MissingCommitError(r.useHeadCommit), MissingCommitPlaceholder(r.useHeadCommit)), requests |-> <<>>]
    ELSE [s |-> SET_VALIDATION_ERROR(SET_IS_VALID_JSON(acc, TRUE), Null), requests |-> <<GenerateRequest(r)>>]

\* The text the gateway generates for a request: opaque, and its own for
\* every request.
Dockerfile(req) == <<"FROM ", req.inputJson, " ">> \o req.githubRepoUrl \o <<"@">> \o req.commit

\* generateDockerfile after its await, accepting only the answer to the
\* request the present inputs would issue
GenerateAnswered_Fenced(s, result) ==
    IF result.success /\ result.dockerfile # <<>> /\ result.dockerfile = Dockerfile(GenerateRequest(s))
    THEN UPDATE_ERROR_AND_DOCKERFILE(s, Null, result.dockerfile)
    ELSE s

\* generateDockerfile after its await: the gateway answered `result`
GenerateAnswered(s, result) ==
    IF result.success /\ result.dockerfile # <<>>
    THEN UPDATE_ERROR_AND_DOCKERFILE(s, Null, result.dockerfile)
    ELSE IF result.error # ""
    THEN UPDATE_ERROR_AND_DOCKERFILE(s, <<result.error>>, ValidationFailedEcho(result.error))
    ELSE s

\* the catch block of generateDockerfile storing the thrown text alone
GenerateThrew_BareText(s, error) == UPDATE_ERROR_AND_DOCKERFILE(s, <<error>>, BackendErrorPlaceholder)

\* generateDockerfile after its await: invoke threw `error`
GenerateThrew(s, error) == UPDATE_ERROR_AND_DOCKERFILE(s, CommunicationError(error), BackendErrorPlaceholder)

\* The state of a tab once its mount effects have run.
MountedTabState == generateDockerfile(defaultTabState, ImageNameChanged(defaultTabState).s).s

\* ------------------------------------------------------------- handlers

\* handleBuild's guard without its validationError test
handleBuildBlocked_NoErrorCheck(s) == ~s.isValidImageName \/ s.isBuilding \/ ~s.isValidJson

\* the guard of handleBuild: TRUE when the handler returns at once
handleBuildBlocked(s) == ~s.isValidImageName \/ s.isBuilding \/ ~s.isValidJson \/ s.validationError # Null

\* handleBuild's dispatches without CLEAR_TEST_LOGS
handleBuildDispatch_KeepsTestLogs(s) == CLEAR_BUILD_LOGS([s EXCEPT !.isBuilding = TRUE, !.shouldAutoScroll = TRUE])

\* the dispatches of handleBuild that precede invoke("build_docker_image")
handleBuildDispatch(s) == CLEAR_TEST_LOGS(CLEAR_BUILD_LOGS([s EXCEPT !.isBuilding = TRUE, !.shouldAutoScroll = TRUE]))

\* the arguments of invoke("build_docker_image", ...)
BuildCommand(s) == [dockerfileContent |-> s.generatedDockerfile, imageName |-> Trim(s.imageName), githubRepoUrl |-> Trim(s.githubRepoUrl), commit |-> Trim(commitToUse(s))]

\* the arguments of invoke("build_docker_image", ...)
BuildArguments(s, path) == [dockerfileContent |-> s.generatedDockerfile, imageName |-> Trim(s.imageName), githubRepoUrl |-> Trim(s.githubRepoUrl), commit |-> Trim(commitToUse(s)), dockerPath |-> Trim(path)]

\* the arguments of invoke("check_docker_image_exists", ...)
CheckArguments(imageNameToCheck, path) == [imageName |-> Trim(imageNameToCheck), dockerPath |-> Trim(path)]

NoCommand == [dockerfileContent |-> <<>>, imageName |-> <<>>, githubRepoUrl |-> <<>>, commit |-> <<>>]

\* the catch block of handleBuild leaving isBuilding as it is
handleBuildCatch_KeepsBuilding(s, error) == ADD_BUILD_LOG(s, ErrorLine(error))

\* the catch block of handleBuild
handleBuildCatch(s, error) == ADD_BUILD_LOG(SET_IS_BUILDING(s, FALSE), ErrorLine(error))

\* handleStopBuild clearing the build log as it stops
handleStopBuildDone_ClearsLogs(s) == CLEAR_BUILD_LOGS(SET_IS_BUILDING(s, FALSE))

\* handleStopBuild after invoke("stop_docker_build") resolved
handleStopBuildDone(s) == SET_IS_BUILDING(s, FALSE)

\* handleTest's guard without its test of the extracted command
handleTestBlocked_NoCommandCheck(s) == ~s.isImageExists \/ s.isTesting \/ ~JsonParse(s.jsonSpec).ok

\* the guard of handleTest: TRUE when the handler returns before any dispatch
handleTestBlocked(s) ==
    \/ ~s.isImageExists \/ s.isTesting
    \/ ~JsonParse(s.jsonSpec).ok
    \/ IsBlank(JsonParse(s.jsonSpec).test_cmd)

\* the dispatches of handleTest that precede invoke("run_docker_test")
handleTestDispatch(s) == CLEAR_TEST_LOGS([s EXCEPT !.isTesting = TRUE, !.shouldAutoScrollTest = TRUE])

\* the catch block of handleTest
handleTestCatch(s, error) == ADD_TEST_LOG(SET_IS_TESTING(s, FALSE), ErrorLine(error))

\* handleStopTest after invoke("stop_docker_test") resolved
handleStopTestDone(s) == SET_IS_TESTING(s, FALSE)

\* the pixel threshold of handleScroll and handleTestScroll
ScrollThreshold == 5

isAtBottom_Strict(scrollTop, scrollHeight, clientHeight) == scrollTop + clientHeight > scrollHeight - ScrollThreshold

isAtBottom(scrollTop, scrollHeight, clientHeight) == scrollTop + clientHeight >= scrollHeight - ScrollThreshold

handleScroll(s, scrollTop, scrollHeight, clientHeight) == SET_SHOULD_AUTO_SCROLL(s, isAtBottom(scrollTop, scrollHeight, clientHeight))

handleTestScroll(s, scrollTop, scrollHeight, clientHeight) == SET_SHOULD_AUTO_SCROLL_TEST(s, isAtBottom(scrollTop, scrollHeight, clientHeight))

\* checkImageExists after its await: the query answered, or threw
checkImageExistsAnswered(s, exists) == SET_IS_CHECKING_IMAGE(SET_IS_IMAGE_EXISTS(s, exists), FALSE)

\* the catch of checkImageExists without the finally block
checkImageExistsThrew_NoFinally(s) == SET_IS_IMAGE_EXISTS(s, FALSE)

checkImageExistsThrew(s) == SET_IS_CHECKING_IMAGE(SET_IS_IMAGE_EXISTS(s, FALSE), FALSE)

\* ------------------------------------------------------------ listeners
\* A unit is one run of a listener effect: the pair of listen() calls it
\* made and the render whose state and dockerPath prop their callbacks close
\* over.  listen()
\* returns a promise, and the cleanup releases through that promise
\* (unlisten.then(f => f())): a unit is "registering" until the bus knows it,
\* "live" after, "cancelled" when its cleanup ran before it was registered,
\* and "releasing" from its cleanup until the bus has dropped it.  The bus
\* calls the units it knows: the live and the releasing ones.

BuildUnit(s, path) == [channel |-> "build", imageName |-> s.imageName, dockerPath |-> path, phase |-> "registering"]

TestUnit == [channel |-> "test", imageName |-> <<>>, dockerPath |-> <<>>, phase |-> "registering"]

Listening(u) == u.phase \in {"live", "releasing"}

\* the cleanup of a listener effect
Cleanup(u) == [u EXCEPT !.phase = IF u.phase = "registering" THEN "cancelled" ELSE IF u.phase = "live" THEN "releasing" ELSE @]

\* useEffect [state.imageName]: the build listeners are released and
\* subscribed again by the render s
ResubscribeBuild(units, s, path) == [i \in 1..Len(units) |-> IF units[i].channel = "build" THEN Cleanup(units[i]) ELSE units[i]] \o <<BuildUnit(s, path)>>

onBuildLog_BothLogs(s, payload) == ADD_TEST_LOG(ADD_BUILD_LOG(s, payload), payload)

\* the build_log callback
onBuildLog(s, payload) == ADD_BUILD_LOG(s, payload)

\* the build_complete callback appending an ERROR line for every failure
onBuildComplete_AlwaysLogs(s, unitName, payload) ==
    IF ~payload.success
    THEN [s |-> ADD_BUILD_LOG(SET_IS_BUILDING(s, FALSE), ErrorLine(payload.error)), queries |-> <<>>]
    ELSE checkImageExists(SET_IS_BUILDING(s, FALSE), unitName)

\* the build_complete callback of a unit subscribed with image name unitName
onBuildComplete(s, unitName, payload) ==
    IF ~payload.success /\ payload.error # ""
    THEN [s |-> ADD_BUILD_LOG(SET_IS_BUILDING(s, FALSE), ErrorLine(payload.error)), queries |-> <<>>]
    ELSE IF payload.success
    THEN checkImageExists(SET_IS_BUILDING(s, FALSE), unitName)
    ELSE [s |-> SET_IS_BUILDING(s, FALSE), queries |-> <<>>]

\* the test_log callback
onTestLog(s, payload) == ADD_TEST_LOG(s, payload)

onTestComplete_ClearsLog(s, payload) == [SET_IS_TESTING(s, FALSE) EXCEPT !.testLogs = <<>>]

\* the test_complete callback
onTestComplete(s, payload) ==
    IF ~payload.success /\ payload.error # ""
    THEN ADD_TEST_LOG(SET_IS_TESTING(s, FALSE), ErrorLine(payload.error))
    ELSE SET_IS_TESTING(s, FALSE)

\* The units of a tab that the bus calls for an event of a channel, in
\* subscription order.
Called(units, channel) == SelectSeq(units, LAMBDA u : u.channel = channel /\ Listening(u))

RECURSIVE EmitBuildLog(_, _, _)
EmitBuildLog(units, s, payload) ==
    IF units = <<>> THEN s ELSE EmitBuildLog(Tail(units), onBuildLog(s, payload), payload)

RECURSIVE EmitBuildComplete(_, _, _)
EmitBuildComplete(units, acc, payload) ==
    IF units = <<>> THEN acc
    ELSE LET r == onBuildComplete(acc.s, Head(units).imageName, payload)
         IN EmitBuildComplete(Tail(units), [s |-> r.s, queries |-> acc.queries \o r.queries], payload)

RECURSIVE EmitTestLog(_, _, _)
EmitTestLog(units, s, payload) ==
    IF units = <<>> THEN s ELSE EmitTestLog(Tail(units), onTestLog(s, payload), payload)

RECURSIVE EmitTestComplete(_, _, _)
EmitTestComplete(units, s, payload) ==
    IF units = <<>> THEN s ELSE EmitTestComplete(Tail(units), onTestComplete(s, payload), payload)

\* ---------------------------------------------------------------- bounds

\* tabs open at once
MaxTabs == 2

\* clock readings Date.now() can return during a run
MaxClock == 2

\* requests of one kind in flight at once (generation, existence, stop)
MaxInFlight == 2

\* characters of an image name typed character by character
MaxNameLen == 4

\* engine sessions of one kind started during a run (one more where a
\* third session is what is looked at)
MaxSessions == 2

\* output lines an engine session emits
MaxLines == 2

\* build listener units of one tab the bus holds at once
MaxUnits == 2

\* ----------------------------------------------------------------- state

\* the id of the tab App starts with
InitialTabId == 1

\* what Date.now() can return
Clock == (InitialTabId + 1)..(InitialTabId + MaxClock)

TabIds == {InitialTabId} \cup Clock

VARIABLES tabs, activeTabId, now, st, lsn, genReqs, chkReqs, stopReqs, bsess, tsess, delivered, lastEv,
          dockerPath, persisted, pathReqs

vars == <<tabs, activeTabId, now, st, lsn, genReqs, chkReqs, stopReqs, bsess, tsess, delivered, lastEv,
          dockerPath, persisted, pathReqs>>

\* tabs          App: the open tabs in order, each an id and a title
\* activeTabId   App: the id of the visible tab
\* now           the reading of the clock
\* st            the reducer state of each tab component
\* lsn           the listener units of each tab component, in subscription order
\* genReqs       generate_docker_file calls in flight
\* chkReqs       check_docker_image_exists calls in flight
\* stopReqs      stop_docker_build and stop_docker_test calls in flight
\* bsess, tsess  the build and test sessions the engine was asked to start
\* delivered     per tab and log, the output-line payloads handed to the tab's
\*               callbacks since the log was last cleared (history)
\* lastEv        the handler or event that ran last, with what it carried (history)
\* dockerPath    App: the text of the Docker path field
\* persisted     the Docker path the settings store holds
\* pathReqs      load_docker_path and save_docker_path calls in flight

settings == <<dockerPath, persisted, pathReqs>>

TabIdsOf(ts) == {ts[i].id : i \in 1..Len(ts)}

Mounted == TabIdsOf(tabs)

\* no payload: the event carried none
NoPayload == [success |-> FALSE, error |-> "-"]

Event(op, t) == [op |-> op, tab |-> t, payload |-> NoPayload]

\* a scroll event, with the geometry of the container it was fired for
Scrolled(op, t, scrollTop, scrollHeight, clientHeight) ==
    [op |-> op, tab |-> t, payload |-> [scrollTop |-> scrollTop, scrollHeight |-> scrollHeight, clientHeight |-> clientHeight]]

RECURSIVE BagAdd(_, _)
BagAdd(bag, seq) == IF seq = <<>> THEN bag ELSE BagAdd(bag (+) SetToBag({Head(seq)}), Tail(seq))

BagRemove(bag, e) == bag (-) SetToBag({e})

Tagged(t, seq) == [i \in 1..Len(seq) |-> [tab |-> t, of |-> seq[i]]]

Repeat(x, n) == [i \in 1..n |-> x]

\* the title of a tab whose image name is empty
Untitled == <<"U", "n", "t", "i", "t", "l", "e", "d">>

\* the Docker path the settings store holds when the application starts
SavedPath == <<"/", "d">>

LoadRequest == [kind |-> "load", dockerPath |-> <<>>]

SaveRequest(path) == [kind |-> "save", dockerPath |-> Trim(path)]

\* App's two mount effects, in order: the load is requested, then the save
\* effect runs on the initial dockerPath
MountRequests == <<LoadRequest, SaveRequest(<<>>)>>

Init ==
    /\ tabs = <<[id |-> InitialTabId, title |-> Untitled]>>
    /\ activeTabId = InitialTabId
    /\ now = InitialTabId + 1
    /\ st = [t \in TabIds |-> IF t = InitialTabId THEN MountedTabState ELSE defaultTabState]
    /\ lsn = [t \in TabIds |-> IF t = InitialTabId THEN <<BuildUnit(MountedTabState, <<>>), TestUnit>> ELSE <<>>]
    /\ genReqs = EmptyBag
    /\ chkReqs = EmptyBag
    /\ stopReqs = EmptyBag
    /\ bsess = <<>>
    /\ tsess = <<>>
    /\ delivered = [t \in TabIds |-> [build |-> <<>>, test |-> <<>>]]
    /\ lastEv = Event("mount", InitialTabId)
    /\ dockerPath = <<>>
    /\ persisted = SavedPath
    /\ pathReqs = BagAdd(EmptyBag, MountRequests)

\* ------------------------------------------------------------ user input

\* The effects that follow an input event: old is the state before it, r the
\* state of the first render after its dispatch.
DerivationRuns(old, r) == IF r.githubRepoUrl # old.githubRepoUrl THEN DerivationEffect(r, r) ELSE r

GenerationInputs(r) == <<r.jsonSpec, r.githubRepoUrl, r.baseCommit, r.headCommit, r.useHeadCommit>>

GenerationRuns(old, r, a) ==
    IF GenerationInputs(r) # GenerationInputs(old) THEN generateDockerfile(r, a) ELSE [s |-> a, requests |-> <<>>]

NameEffectsRun(old, g, n) ==
    IF g.s.imageName # old.imageName
    THEN [s |-> n.s, requests |-> g.requests, queries |-> n.queries, resubscribe |-> TRUE]
    ELSE [s |-> g.s, requests |-> g.requests, queries |-> <<>>, resubscribe |-> FALSE]

AfterGeneration(old, g) == NameEffectsRun(old, g, ImageNameChanged(g.s))

InputEffects(old, r) == AfterGeneration(old, GenerationRuns(old, r, DerivationRuns(old, r)))

\* updateTabData with a title: every entry of that id takes it
updateTabData(ts, tabId, title) ==
    [i \in 1..Len(ts) |-> IF ts[i].id = tabId THEN [ts[i] EXCEPT !.title = title] ELSE ts[i]]

\* what the title effect passes to onTabNameChange
TabName(s) == IF s.imageName # <<>> THEN s.imageName ELSE Untitled

\* the title effect of a tab component rendered while activeId is the
\* visible tab: it runs when the image name changed
TitleEffect(ts, activeId, changed, s) == IF changed THEN updateTabData(ts, activeId, TabName(s)) ELSE ts

\* The input event lands: e is what its effects made of it.
InputLands(op, t, r, e) ==
    /\ t \in Mounted /\ t = activeTabId
    /\ r # st[t]
    /\ BagCardinality(genReqs) + Len(e.requests) <= MaxInFlight
    /\ BagCardinality(chkReqs) + Len(e.queries) <= MaxInFlight
    /\ e.resubscribe => Len(SelectSeq(lsn[t], LAMBDA u : u.channel = "build")) < MaxUnits
    /\ st' = [st EXCEPT ![t] = e.s]
    /\ genReqs' = BagAdd(genReqs, Tagged(t, e.requests))
    /\ chkReqs' = BagAdd(chkReqs, Tagged(t, e.queries))
    /\ lsn' = [lsn EXCEPT ![t] = IF e.resubscribe THEN ResubscribeBuild(@, e.s, dockerPath) ELSE @]
    /\ tabs' = TitleEffect(tabs, activeTabId, e.resubscribe, e.s)
    /\ lastEv' = Event(op, t)
    /\ UNCHANGED <<activeTabId, now, stopReqs, bsess, tsess, delivered, settings>>

\* An input event of the visible tab t that dispatches to the render r.
Input(op, t, r) == InputLands(op, t, r, InputEffects(st[t], r))

SetGithubRepoUrl(t, url) == Input("setGithubRepoUrl", t, SET_GITHUB_REPO_URL(st[t], url))

SetBaseCommit(t, commit) == Input("setBaseCommit", t, SET_BASE_COMMIT(st[t], commit))

SetHeadCommit(t, commit) == Input("setHeadCommit", t, SET_HEAD_COMMIT(st[t], commit))

SetUseHeadCommit(t, useHead) == Input("setUseHeadCommit", t, SET_USE_HEAD_COMMIT(st[t], useHead))

SetJsonSpec(t, spec) == Input("setJsonSpec", t, SET_JSON_SPEC(st[t], spec))

SetImageName(t, name) == Input("setImageName", t, SET_IMAGE_NAME(st[t], name))

\* ------------------------------------------------- gateway and existence

\* the gateway answers a generation request
GenerateResponds(q, result) ==
    /\ q \in BagToSet(genReqs)
    /\ genReqs' = BagRemove(genReqs, q)
    /\ st' = [st EXCEPT ![q.tab] = IF q.tab \in Mounted THEN GenerateAnswered(@, result) ELSE @]
    /\ lastEv' = [Event("generateResponds", q.tab) EXCEPT !.payload = result]
    /\ UNCHANGED <<tabs, activeTabId, now, lsn, chkReqs, stopReqs, bsess, tsess, delivered, settings>>

\* a generation request fails in transport
GenerateThrows(q, error) ==
    /\ q \in BagToSet(genReqs)
    /\ genReqs' = BagRemove(genReqs, q)
    /\ st' = [st EXCEPT ![q.tab] = IF q.tab \in Mounted THEN GenerateThrew(@, error) ELSE @]
    /\ lastEv' = [Event("generateThrows", q.tab) EXCEPT !.payload.error = error]
    /\ UNCHANGED <<tabs, activeTabId, now, lsn, chkReqs, stopReqs, bsess, tsess, delivered, settings>>

\* what the gateway can answer to the request req
GatewaySuccess(req) == [success |-> TRUE, dockerfile |-> Dockerfile(req), error |-> ""]

GatewayError(error) == [success |-> FALSE, dockerfile |-> <<>>, error |-> error]

\* neither a build file nor an error text
GatewayEmpty == [success |-> TRUE, dockerfile |-> <<>>, error |-> ""]

\* the engine answers an existence query
CheckResponds(q, exists) ==
    /\ q \in BagToSet(chkReqs)
    /\ chkReqs' = BagRemove(chkReqs, q)
    /\ st' = [st EXCEPT ![q.tab] = IF q.tab \in Mounted THEN checkImageExistsAnswered(@, exists) ELSE @]
    /\ lastEv' = [Event("checkResponds", q.tab) EXCEPT !.payload.success = exists]
    /\ UNCHANGED <<tabs, activeTabId, now, lsn, genReqs, stopReqs, bsess, tsess, delivered, settings>>

\* an existence query fails
CheckThrows(q) ==
    /\ q \in BagToSet(chkReqs)
    /\ chkReqs' = BagRemove(chkReqs, q)
    /\ st' = [st EXCEPT ![q.tab] = IF q.tab \in Mounted THEN checkImageExistsThrew(@) ELSE @]
    /\ lastEv' = Event("checkThrows", q.tab)
    /\ UNCHANGED <<tabs, activeTabId, now, lsn, genReqs, stopReqs, bsess, tsess, delivered, settings>>

\* -------------------------------------------------------------- event bus

\* the bus has registered unit i of tab t
ListenRegistered(t, i) ==
    /\ i \in 1..Len(lsn[t])
    /\ lsn[t][i].phase \in {"registering", "cancelled"}
    /\ lsn' = [lsn EXCEPT ![t][i].phase = IF @ = "registering" THEN "live" ELSE "releasing"]
    /\ lastEv' = Event("listenRegistered", t)
    /\ UNCHANGED <<tabs, activeTabId, now, st, genReqs, chkReqs, stopReqs, bsess, tsess, delivered, settings>>

\* the bus has dropped unit i of tab t
UnlistenDone(t, i) ==
    /\ i \in 1..Len(lsn[t])
    /\ lsn[t][i].phase = "releasing"
    /\ lsn' = [lsn EXCEPT ![t] = SubSeq(@, 1, i - 1) \o SubSeq(@, i + 1, Len(@))]
    /\ lastEv' = Event("unlistenDone", t)
    /\ UNCHANGED <<tabs, activeTabId, now, st, genReqs, chkReqs, stopReqs, bsess, tsess, delivered, settings>>

\* ------------------------------------------------------------------ build

Session(t, cmd) == [tab |-> t, status |-> "starting", n |-> 0, cmd |-> cmd]

\* handleBuild, to its await
HandleBuild(t) ==
    /\ t \in Mounted /\ t = activeTabId
    /\ lastEv' = Event("handleBuild", t)
    /\ IF handleBuildBlocked(st[t])
       THEN UNCHANGED <<st, bsess, delivered>>
       ELSE /\ st' = [st EXCEPT ![t] = handleBuildDispatch(@)]
            /\ bsess' = Append(bsess, Session(t, BuildCommand(st[t])))
            /\ delivered' = [delivered EXCEPT ![t] = [build |-> <<>>, test |-> <<>>]]
    /\ UNCHANGED <<tabs, activeTabId, now, lsn, genReqs, chkReqs, stopReqs, tsess, settings>>

\* the engine accepts the build: build_docker_image is running
BuildAccepted(i) ==
    /\ i \in 1..Len(bsess)
    /\ bsess[i].status = "starting"
    /\ bsess' = [bsess EXCEPT ![i].status = "running", ![i].cmd = NoCommand]
    /\ lastEv' = Event("buildAccepted", bsess[i].tab)
    /\ UNCHANGED <<tabs, activeTabId, now, st, lsn, genReqs, chkReqs, stopReqs, tsess, delivered, settings>>

\* the engine cannot launch the build: invoke("build_docker_image") throws
BuildLaunchFails(i, error) ==
    /\ i \in 1..Len(bsess)
    /\ bsess[i].status = "starting"
    /\ bsess' = [bsess EXCEPT ![i].status = "done", ![i].cmd = NoCommand]
    /\ st' = [st EXCEPT ![bsess[i].tab] = IF bsess[i].tab \in Mounted THEN handleBuildCatch(@, error) ELSE @]
    /\ lastEv' = [Event("buildLaunchFails", bsess[i].tab) EXCEPT !.payload.error = error]
    /\ UNCHANGED <<tabs, activeTabId, now, lsn, genReqs, chkReqs, stopReqs, tsess, delivered, settings>>

\* the engine emits the next output line of build session i
BuildLog(i) ==
    /\ i \in 1..Len(bsess)
    /\ bsess[i].status \in {"running", "stopping"}
    /\ bsess[i].n < MaxLines
    /\ bsess' = [bsess EXCEPT ![i].n = @ + 1]
    /\ st' = [t \in TabIds |-> EmitBuildLog(Called(lsn[t], "build"), st[t], OutputLine("build", i, bsess[i].n + 1))]
    /\ delivered' = [t \in TabIds |-> [delivered[t] EXCEPT !.build = @ \o Repeat(OutputLine("build", i, bsess[i].n + 1), Len(Called(lsn[t], "build")))]]
    /\ lastEv' = Event("buildLog", bsess[i].tab)
    /\ UNCHANGED <<tabs, activeTabId, now, lsn, genReqs, chkReqs, stopReqs, tsess, settings>>

\* the engine emits the completion event of build session i
BuildComplete(i, payload) ==
    /\ i \in 1..Len(bsess)
    /\ bsess[i].status \in {"running", "stopping"}
    /\ LET out == [t \in TabIds |-> EmitBuildComplete(Called(lsn[t], "build"), [s |-> st[t], queries |-> <<>>], payload)]
           RECURSIVE AllQueries(_)
           AllQueries(S) == IF S = {} THEN <<>> ELSE LET t == CHOOSE x \in S : TRUE IN Tagged(t, out[t].queries) \o AllQueries(S \ {t})
       IN /\ BagCardinality(chkReqs) + Len(AllQueries(TabIds)) <= MaxInFlight
          /\ st' = [t \in TabIds |-> out[t].s]
          /\ chkReqs' = BagAdd(chkReqs, AllQueries(TabIds))
    /\ bsess' = [bsess EXCEPT ![i].status = "done"]
    /\ lastEv' = [Event("buildComplete", bsess[i].tab) EXCEPT !.payload = payload]
    /\ UNCHANGED <<tabs, activeTabId, now, lsn, genReqs, stopReqs, tsess, delivered, settings>>

\* handleStopBuild, to its await; the Stop button is rendered while building
HandleStopBuild(t) ==
    /\ t \in Mounted /\ t = activeTabId
    /\ st[t].isBuilding
    /\ BagCardinality(stopReqs) < MaxInFlight
    /\ stopReqs' = stopReqs (+) SetToBag({[tab |-> t, of |-> "build"]})
    /\ lastEv' = Event("handleStopBuild", t)
    /\ UNCHANGED <<tabs, activeTabId, now, st, lsn, genReqs, chkReqs, bsess, tsess, delivered, settings>>

\* the engine is told to stop the builds it was asked for, which is advisory:
\* invoke("stop_docker_build") resolves
StopBuildResolves(q) ==
    /\ q \in BagToSet(stopReqs) /\ q.of = "build"
    /\ stopReqs' = BagRemove(stopReqs, q)
    /\ bsess' = [i \in 1..Len(bsess) |-> IF bsess[i].status \in {"starting", "running"} THEN [bsess[i] EXCEPT !.status = "stopping", !.cmd = NoCommand] ELSE bsess[i]]
    /\ st' = [st EXCEPT ![q.tab] = IF q.tab \in Mounted THEN handleStopBuildDone(@) ELSE @]
    /\ lastEv' = Event("stopBuildResolves", q.tab)
    /\ UNCHANGED <<tabs, activeTabId, now, lsn, genReqs, chkReqs, tsess, delivered, settings>>

\* invoke("stop_docker_build") throws
StopBuildThrows(q) ==
    /\ q \in BagToSet(stopReqs) /\ q.of = "build"
    /\ stopReqs' = BagRemove(stopReqs, q)
    /\ lastEv' = Event("stopBuildThrows", q.tab)
    /\ UNCHANGED <<tabs, activeTabId, now, st, lsn, genReqs, chkReqs, bsess, tsess, delivered, settings>>

\* handleScroll; the log container is rendered while building or with lines
HandleScroll(t, scrollTop, scrollHeight, clientHeight) ==
    /\ t \in Mounted /\ t = activeTabId
    /\ st[t].isBuilding \/ st[t].buildLogs # <<>>
    /\ st' = [st EXCEPT ![t] = handleScroll(@, scrollTop, scrollHeight, clientHeight)]
    /\ lastEv' = Scrolled("handleScroll", t, scrollTop, scrollHeight, clientHeight)
    /\ UNCHANGED <<tabs, activeTabId, now, lsn, genReqs, chkReqs, stopReqs, bsess, tsess, delivered, settings>>

\* the "Scroll to bottom" button of the build log, rendered while
\* auto-scroll is paused and the log has lines: the container is scrolled to
\* its end, and handleScroll finds it there
ScrollToBottom(t) ==
    /\ t \in Mounted /\ t = activeTabId
    /\ ~st[t].shouldAutoScroll /\ st[t].buildLogs # <<>>
    /\ st' = [st EXCEPT ![t] = SET_SHOULD_AUTO_SCROLL(@, TRUE)]
    /\ lastEv' = Event("scrollToBottom", t)
    /\ UNCHANGED <<tabs, activeTabId, now, lsn, genReqs, chkReqs, stopReqs, bsess, tsess, delivered, settings>>

\* ------------------------------------------------------------------- test

\* the arguments of invoke("run_docker_test", ...)
TestCommand(s) == [imageName |-> Trim(s.imageName), testCmd |-> Trim(JsonParse(s.jsonSpec).test_cmd)]

NoTestCommand == [imageName |-> <<>>, testCmd |-> <<>>]

\* handleTest, to its await
HandleTest(t) ==
    /\ t \in Mounted /\ t = activeTabId
    /\ lastEv' = Event("handleTest", t)
    /\ IF handleTestBlocked(st[t])
       THEN UNCHANGED <<st, tsess, delivered>>
       ELSE /\ st' = [st EXCEPT ![t] = handleTestDispatch(@)]
            /\ tsess' = Append(tsess, Session(t, TestCommand(st[t])))
            /\ delivered' = [delivered EXCEPT ![t].test = <<>>]
    /\ UNCHANGED <<tabs, activeTabId, now, lsn, genReqs, chkReqs, stopReqs, bsess, settings>>

\* the engine accepts the test run
TestAccepted(i) ==
    /\ i \in 1..Len(tsess)
    /\ tsess[i].status = "starting"
    /\ tsess' = [tsess EXCEPT ![i].status = "running", ![i].cmd = NoTestCommand]
    /\ lastEv' = Event("testAccepted", tsess[i].tab)
    /\ UNCHANGED <<tabs, activeTabId, now, st, lsn, genReqs, chkReqs, stopReqs, bsess, delivered, settings>>

\* the engine cannot launch the test run: invoke("run_docker_test") throws
TestLaunchFails(i, error) ==
    /\ i \in 1..Len(tsess)
    /\ tsess[i].status = "starting"
    /\ tsess' = [tsess EXCEPT ![i].status = "done", ![i].cmd = NoTestCommand]
    /\ st' = [st EXCEPT ![tsess[i].tab] = IF tsess[i].tab \in Mounted THEN handleTestCatch(@, error) ELSE @]
    /\ lastEv' = [Event("testLaunchFails", tsess[i].tab) EXCEPT !.payload.error = error]
    /\ UNCHANGED <<tabs, activeTabId, now, lsn, genReqs, chkReqs, stopReqs, bsess, delivered, settings>>

\* the engine emits the next output line of test session i
TestLog(i) ==
    /\ i \in 1..Len(tsess)
    /\ tsess[i].status \in {"running", "stopping"}
    /\ tsess[i].n < MaxLines
    /\ tsess' = [tsess EXCEPT ![i].n = @ + 1]
    /\ st' = [t \in TabIds |-> EmitTestLog(Called(lsn[t], "test"), st[t], OutputLine("test", i, tsess[i].n + 1))]
    /\ delivered' = [t \in TabIds |-> [delivered[t] EXCEPT !.test = @ \o Repeat(OutputLine("test", i, tsess[i].n + 1), Len(Called(lsn[t], "test")))]]
    /\ lastEv' = Event("testLog", tsess[i].tab)
    /\ UNCHANGED <<tabs, activeTabId, now, lsn, genReqs, chkReqs, stopReqs, bsess, settings>>

\* the engine emits the completion event of test session i
TestComplete(i, payload) ==
    /\ i \in 1..Len(tsess)
    /\ tsess[i].status \in {"running", "stopping"}
    /\ tsess' = [tsess EXCEPT ![i].status = "done"]
    /\ st' = [t \in TabIds |-> EmitTestComplete(Called(lsn[t], "test"), st[t], payload)]
    /\ lastEv' = [Event("testComplete", tsess[i].tab) EXCEPT !.payload = payload]
    /\ UNCHANGED <<tabs, activeTabId, now, lsn, genReqs, chkReqs, stopReqs, bsess, delivered, settings>>

\* handleStopTest, to its await; the Stop button is rendered while testing
HandleStopTest(t) ==
    /\ t \in Mounted /\ t = activeTabId
    /\ st[t].isTesting
    /\ BagCardinality(stopReqs) < MaxInFlight
    /\ stopReqs' = stopReqs (+) SetToBag({[tab |-> t, of |-> "test"]})
    /\ lastEv' = Event("handleStopTest", t)
    /\ UNCHANGED <<tabs, activeTabId, now, st, lsn, genReqs, chkReqs, bsess, tsess, delivered, settings>>

\* the engine is told to stop the test runs it was asked for:
\* invoke("stop_docker_test") resolves
StopTestResolves(q) ==
    /\ q \in BagToSet(stopReqs) /\ q.of = "test"
    /\ stopReqs' = BagRemove(stopReqs, q)
    /\ tsess' = [i \in 1..Len(tsess) |-> IF tsess[i].status \in {"starting", "running"} THEN [tsess[i] EXCEPT !.status = "stopping", !.cmd = NoTestCommand] ELSE tsess[i]]
    /\ st' = [st EXCEPT ![q.tab] = IF q.tab \in Mounted THEN handleStopTestDone(@) ELSE @]
    /\ lastEv' = Event("stopTestResolves", q.tab)
    /\ UNCHANGED <<tabs, activeTabId, now, lsn, genReqs, chkReqs, bsess, delivered, settings>>

\* invoke("stop_docker_test") throws
StopTestThrows(q) ==
    /\ q \in BagToSet(stopReqs) /\ q.of = "test"
    /\ stopReqs' = BagRemove(stopReqs, q)
    /\ lastEv' = Event("stopTestThrows", q.tab)
    /\ UNCHANGED <<tabs, activeTabId, now, st, lsn, genReqs, chkReqs, bsess, tsess, delivered, settings>>

\* handleTestScroll; the log container is rendered while testing or with lines
HandleTestScroll(t, scrollTop, scrollHeight, clientHeight) ==
    /\ t \in Mounted /\ t = activeTabId
    /\ st[t].isTesting \/ st[t].testLogs # <<>>
    /\ st' = [st EXCEPT ![t] = handleTestScroll(@, scrollTop, scrollHeight, clientHeight)]
    /\ lastEv' = Scrolled("handleTestScroll", t, scrollTop, scrollHeight, clientHeight)
    /\ UNCHANGED <<tabs, activeTabId, now, lsn, genReqs, chkReqs, stopReqs, bsess, tsess, delivered, settings>>

\* the "Scroll to bottom" button of the test log
ScrollTestToBottom(t) ==
    /\ t \in Mounted /\ t = activeTabId
    /\ ~st[t].shouldAutoScrollTest /\ st[t].testLogs # <<>>
    /\ st' = [st EXCEPT ![t] = SET_SHOULD_AUTO_SCROLL_TEST(@, TRUE)]
    /\ lastEv' = Event("scrollTestToBottom", t)
    /\ UNCHANGED <<tabs, activeTabId, now, lsn, genReqs, chkReqs, stopReqs, bsess, tsess, delivered, settings>>

\* ------------------------------------------------------------------- tabs

\* the clock advances
Tick ==
    /\ now < InitialTabId + MaxClock
    /\ now' = now + 1
    /\ lastEv' = Event("tick", activeTabId)
    /\ UNCHANGED <<tabs, activeTabId, st, lsn, genReqs, chkReqs, stopReqs, bsess, tsess, delivered, settings>>

\* addTab: the new tab's id is the clock reading, and React mounts a
\* component for a key it does not hold yet
AddTab ==
    /\ Len(tabs) < MaxTabs
    /\ tabs' = Append(tabs, [id |-> now, title |-> Untitled])
    /\ activeTabId' = now
    /\ st' = IF now \in Mounted THEN st ELSE [st EXCEPT ![now] = MountedTabState]
    /\ lsn' = IF now \in Mounted THEN lsn ELSE [lsn EXCEPT ![now] = <<BuildUnit(MountedTabState, dockerPath), TestUnit>>]
    /\ delivered' = IF now \in Mounted THEN delivered ELSE [delivered EXCEPT ![now] = [build |-> <<>>, test |-> <<>>]]
    /\ lastEv' = Event("addTab", now)
    /\ UNCHANGED <<now, genReqs, chkReqs, stopReqs, bsess, tsess, settings>>

\* a click on a tab of the tab bar
SelectTab(t) ==
    /\ t \in Mounted
    /\ t # activeTabId
    /\ activeTabId' = t
    /\ lastEv' = Event("selectTab", t)
    /\ UNCHANGED <<tabs, now, st, lsn, genReqs, chkReqs, stopReqs, bsess, tsess, delivered, settings>>

\* tabs.findIndex by id: the first entry of that id
findIndex(ts, tabId) == CHOOSE i \in 1..Len(ts) : ts[i].id = tabId /\ \A j \in 1..(i - 1) : ts[j].id # tabId

newActiveTab_First(ts, currentIndex) == ts[1]

\* tabs[currentIndex - 1] || tabs[currentIndex + 1], for an entry of a list
\* of two tabs or more
newActiveTab(ts, currentIndex) == IF currentIndex > 1 THEN ts[currentIndex - 1] ELSE ts[currentIndex + 1]

\* closeTab(tabId) of a render whose tabs are ts and whose visible tab is activeId
closeTab(ts, activeId, tabId) ==
    IF Len(ts) <= 1
    THEN [tabs |-> ts, activeTabId |-> activeId]
    ELSE [tabs |-> SelectSeq(ts, LAMBDA tab : tab.id # tabId),
          activeTabId |-> IF activeId = tabId THEN newActiveTab(ts, findIndex(ts, tabId)).id ELSE activeId]

\* the requests of a bag that a tab other than t issued
OfOtherTabs(bag, t) == [q \in {x \in BagToSet(bag) : x.tab # t} |-> CopiesIn(q, bag)]

\* a click on the close button of the i-th tab of the tab bar, which is
\* rendered while there are two tabs or more; React unmounts the component
\* of a key the list no longer holds (lastEv records whether the closed tab
\* was the visible one)
CloseTabLands(i, c) ==
    /\ tabs' = c.tabs
    /\ activeTabId' = c.activeTabId
    /\ st' = [st EXCEPT ![tabs[i].id] = defaultTabState]
    /\ lsn' = [lsn EXCEPT ![tabs[i].id] = <<>>]
    /\ delivered' = [delivered EXCEPT ![tabs[i].id] = [build |-> <<>>, test |-> <<>>]]
    /\ genReqs' = OfOtherTabs(genReqs, tabs[i].id)
    /\ chkReqs' = OfOtherTabs(chkReqs, tabs[i].id)
    /\ stopReqs' = OfOtherTabs(stopReqs, tabs[i].id)
    /\ lastEv' = [Event("closeTab", tabs[i].id) EXCEPT !.payload.success = (activeTabId = tabs[i].id)]
    /\ UNCHANGED <<now, bsess, tsess, settings>>

CloseTab(i) ==
    /\ i \in 1..Len(tabs)
    /\ Len(tabs) > 1
    /\ CloseTabLands(i, closeTab(tabs, activeTabId, tabs[i].id))

\* -------------------------------------------------------------- settings

\* load_docker_path answers with the path the store holds, and App's save
\* effect runs when that changes dockerPath
LoadResolves(q) ==
    /\ q \in BagToSet(pathReqs) /\ q.kind = "load"
    /\ dockerPath' = persisted
    /\ pathReqs' = IF persisted # dockerPath
                   THEN BagRemove(pathReqs, q) (+) SetToBag({SaveRequest(persisted)})
                   ELSE BagRemove(pathReqs, q)
    /\ lastEv' = Event("loadResolves", activeTabId)
    /\ UNCHANGED <<tabs, activeTabId, now, st, lsn, genReqs, chkReqs, stopReqs, bsess, tsess, delivered, persisted>>

\* load_docker_path fails: the error is logged
LoadThrows(q) ==
    /\ q \in BagToSet(pathReqs) /\ q.kind = "load"
    /\ pathReqs' = BagRemove(pathReqs, q)
    /\ lastEv' = Event("loadThrows", activeTabId)
    /\ UNCHANGED <<tabs, activeTabId, now, st, lsn, genReqs, chkReqs, stopReqs, bsess, tsess, delivered, dockerPath, persisted>>

\* save_docker_path stores the path it was called with
SaveLands(q) ==
    /\ q \in BagToSet(pathReqs) /\ q.kind = "save"
    /\ persisted' = q.dockerPath
    /\ pathReqs' = BagRemove(pathReqs, q)
    /\ lastEv' = Event("saveLands", activeTabId)
    /\ UNCHANGED <<tabs, activeTabId, now, st, lsn, genReqs, chkReqs, stopReqs, bsess, tsess, delivered, dockerPath>>

\* save_docker_path fails: the error is logged
SaveThrows(q) ==
    /\ q \in BagToSet(pathReqs) /\ q.kind = "save"
    /\ pathReqs' = BagRemove(pathReqs, q)
    /\ lastEv' = Event("saveThrows", activeTabId)
    /\ UNCHANGED <<tabs, activeTabId, now, st, lsn, genReqs, chkReqs, stopReqs, bsess, tsess, delivered, dockerPath, persisted>>

\* the Docker path field is edited, and App's save effect runs
SetDockerPath(path) ==
    /\ path # dockerPath
    /\ BagCardinality(pathReqs) < MaxInFlight
    /\ dockerPath' = path
    /\ pathReqs' = pathReqs (+) SetToBag({SaveRequest(path)})
    /\ lastEv' = Event("setDockerPath", activeTabId)
    /\ UNCHANGED <<tabs, activeTabId, now, st, lsn, genReqs, chkReqs, stopReqs, bsess, tsess, delivered, persisted>>

\* ---------------------------------------------------------- what is typed

GithubUrl == HttpsGithubCom \o <<"a", "/", "b">>

OtherUrl == <<"x">>

DerivedName == <<"a", "_", "_", "b">>

ValidName == <<"i">>

InvalidName == <<"A">>

BaseCommitText == <<"c">>

\* the same texts as pasted, with white space around them, and white space alone
PaddedUrl == <<" ">> \o GithubUrl \o <<" ">>

PaddedCommit == <<" ", "c", "\n">>

Spaces == <<" ">>

HeadCommitText == <<"h">>

\* what the engine and the gateway report
ErrorTexts == {"boom"}

CompletionPayloads == {[success |-> TRUE, error |-> ""], [success |-> FALSE, error |-> ""], [success |-> FALSE, error |-> "boom"]}

\* the geometry of a log container: 20 pixels of lines in a 10-pixel viewport
ScrollTops == {4, 5, 10}

\* ------------------------------------------------------------- SpecGen
\* One tab: its inputs are edited in any order while the gateway and the
\* existence queries answer in any order, and the build is started at any
\* moment; a started build fails to launch.

NextGen ==
    \/ \E t \in TabIds, u \in {<<>>, GithubUrl} : SetGithubRepoUrl(t, u)
    \/ \E t \in TabIds, c \in {<<>>, BaseCommitText} : SetBaseCommit(t, c)
    \/ \E t \in TabIds : SetHeadCommit(t, HeadCommitText)
    \/ \E t \in TabIds, b \in BOOLEAN : SetUseHeadCommit(t, b)
    \/ \E t \in TabIds, j \in {DefaultJson, BrokenJson} : SetJsonSpec(t, j)
    \/ \E q \in BagToSet(genReqs) : GenerateResponds(q, GatewaySuccess(q.of))
    \/ \E q \in BagToSet(genReqs), e \in ErrorTexts : GenerateResponds(q, GatewayError(e))
    \/ \E q \in BagToSet(genReqs) : GenerateResponds(q, GatewayEmpty)
    \/ \E q \in BagToSet(genReqs), e \in ErrorTexts : GenerateThrows(q, e)
    \/ \E q \in BagToSet(chkReqs) : CheckResponds(q, TRUE)
    \/ \E t \in TabIds : Len(bsess) < MaxSessions /\ HandleBuild(t)
    \/ \E i \in 1..MaxSessions, e \in ErrorTexts : BuildLaunchFails(i, e)

SpecGen == Init /\ [][NextGen]_vars

\* The build command a step issues for tab t, if it issues one.
IssuesBuild(t) == Len(bsess') = Len(bsess) + 1 /\ bsess'[Len(bsess')].tab = t

\* C1: handleBuild is a no-op when the image name is invalid, a build is in
\* progress, the JSON text does not parse or a validation error is pending:
\* no start-build command is issued, isBuilding keeps its value and neither
\* log changes.
C1_BlockedBuildIsNoOp ==
    [][\A t \in TabIds :
        (/\ lastEv'.op = "handleBuild" /\ lastEv'.tab = t
         /\ \/ ~validateDockerImageName(st[t].imageName)
            \/ st[t].isBuilding
            \/ ~validateJsonSyntax(st[t].jsonSpec)
            \/ st[t].validationError # Null)
        => /\ bsess' = bsess
           /\ st'[t].isBuilding = st[t].isBuilding
           /\ st'[t].buildLogs = st[t].buildLogs
           /\ st'[t].testLogs = st[t].testLogs]_vars

\* handleBuild has just returned at its guard on a pending validation error
\* alone, with a line in the build log.
C1_Witness ==
    /\ lastEv.op = "handleBuild"
    /\ st[lastEv.tab].validationError # Null
    /\ st[lastEv.tab].isValidImageName /\ st[lastEv.tab].isValidJson /\ ~st[lastEv.tab].isBuilding
    /\ st[lastEv.tab].buildLogs # <<>>

\* ------------------------------------------------------------- SpecLog
\* One tab, its inputs filled in once: build and test sessions emit their
\* output lines and fail, while the user scrolls the build log.

FailurePayloads == {p \in CompletionPayloads : p.error # ""}

NextLog ==
    \/ \E t \in TabIds : SetGithubRepoUrl(t, GithubUrl)
    \/ \E t \in TabIds : SetBaseCommit(t, BaseCommitText)
    \/ \E q \in BagToSet(genReqs) : GenerateResponds(q, GatewaySuccess(q.of))
    \/ \E q \in BagToSet(chkReqs) : CheckResponds(q, TRUE)
    \/ \E t \in TabIds, i \in 1..(MaxUnits + 1) : ListenRegistered(t, i)
    \/ \E t \in TabIds : Len(bsess) < MaxSessions /\ HandleBuild(t)
    \/ \E i \in 1..MaxSessions : BuildAccepted(i)
    \/ \E i \in 1..MaxSessions : BuildLog(i)
    \/ \E i \in 1..MaxSessions, p \in FailurePayloads : BuildComplete(i, p)
    \/ \E t \in TabIds, top \in ScrollTops : HandleScroll(t, top, 20, 10)
    \/ \E t \in TabIds : Len(tsess) < MaxSessions - 1 /\ HandleTest(t)
    \/ \E i \in 1..MaxSessions : TestAccepted(i)
    \/ \E i \in 1..MaxSessions : TestLog(i)
    \/ \E i \in 1..MaxSessions, p \in FailurePayloads : TestComplete(i, p)

SpecLog == Init /\ [][NextLog]_vars

\* C2: whenever handleBuild passes its guard, at the moment the start-build
\* command is issued the build log and the test log are empty, isBuilding is
\* true and shouldAutoScroll is true.
C2_BuildStartResets ==
    [][\A t \in TabIds :
        IssuesBuild(t)
        => /\ st'[t].buildLogs = <<>>
           /\ st'[t].testLogs = <<>>
           /\ st'[t].isBuilding
           /\ st'[t].shouldAutoScroll]_vars

\* The second build has just been started, after the first build and a test
\* run each emitted output lines to live listeners.
C2_Witness ==
    /\ lastEv.op = "handleBuild"
    /\ Len(bsess) = 2 /\ bsess[2].status = "starting" /\ bsess[1].n > 0
    /\ Len(tsess) = 1 /\ tsess[1].n > 0
    /\ st[lastEv.tab].isBuilding
    /\ st[lastEv.tab].buildLogs = <<>> /\ st[lastEv.tab].testLogs = <<>>

\* the output-line entries of a log, in log order
OutputLines(log) == SelectSeq(log, LAMBDA e : e.sid # 0)

NextName ==
    \/ \E t \in TabIds : SetGithubRepoUrl(t, GithubUrl)
    \/ \E t \in TabIds : SetBaseCommit(t, BaseCommitText)
    \/ \E t \in TabIds, n \in {ValidName, InvalidName} : SetImageName(t, n)
    \/ \E q \in BagToSet(genReqs) : GenerateResponds(q, GatewaySuccess(q.of))
    \/ \E q \in BagToSet(chkReqs), b \in BOOLEAN : CheckResponds(q, b)
    \/ \E q \in BagToSet(chkReqs) : CheckThrows(q)
    \/ \E t \in TabIds, i \in 1..(MaxUnits + 1) : ListenRegistered(t, i)
    \/ \E t \in TabIds, i \in 1..(MaxUnits + 1) : UnlistenDone(t, i)
    \/ \E t \in TabIds : Len(bsess) < MaxSessions - 1 /\ HandleBuild(t)
    \/ \E i \in 1..MaxSessions : BuildAccepted(i)
    \/ \E i \in 1..MaxSessions, p \in CompletionPayloads : BuildComplete(i, p)

SpecName == Init /\ [][NextName]_vars

\* ------------------------------------------------------------ SpecStop
\* One tab, its inputs filled in once: builds are started, stopped and
\* started again, and a stopped session still delivers its completion event.

NextStop ==
    \/ \E t \in TabIds : SetGithubRepoUrl(t, GithubUrl)
    \/ \E t \in TabIds : SetBaseCommit(t, BaseCommitText)
    \/ \E q \in BagToSet(genReqs) : GenerateResponds(q, GatewaySuccess(q.of))
    \/ \E q \in BagToSet(chkReqs), b \in BOOLEAN : CheckResponds(q, b)
    \/ \E t \in TabIds, i \in 1..(MaxUnits + 1) : ListenRegistered(t, i)
    \/ \E t \in TabIds : Len(bsess) < MaxSessions + 1 /\ HandleBuild(t)
    \/ \E i \in 1..(MaxSessions + 1) : BuildAccepted(i)
    \/ \E i \in 1..(MaxSessions + 1), p \in CompletionPayloads : BuildComplete(i, p)
    \/ \E t \in TabIds : stopReqs = EmptyBag /\ HandleStopBuild(t)
    \/ \E q \in BagToSet(stopReqs) : StopBuildResolves(q)
    \/ \E q \in BagToSet(stopReqs) : StopBuildThrows(q)

SpecStop == Init /\ [][NextStop]_vars

\* C3 (as claimed, for a tab whose image name is a valid name): a
\* build_complete event with success = true that the tab receives while
\* isBuilding is true sets isBuilding to false and issues exactly one
\* existence query, for the image name the tab has when the event arrives.
C3_CompletionRechecksCurrentName ==
    [][\A t \in TabIds :
        (/\ lastEv'.op = "buildComplete" /\ lastEv'.payload.success
         /\ st[t].isBuilding
         /\ Called(lsn[t], "build") # <<>>
         /\ validateDockerImageName(st[t].imageName))
        => /\ ~st'[t].isBuilding
           /\ chkReqs' = chkReqs (+) SetToBag({[tab |-> t, of |-> Trim(st[t].imageName)]})]_vars

\* C8 (as claimed): isImageExists is false whenever isValidImageName is false.
C8_ExistsOnlyForValidName == \A t \in TabIds : ~st[t].isValidImageName => ~st[t].isImageExists

\* C4 (as claimed): the completion event of a build session that a resolved
\* stop has set idle changes neither isBuilding nor the build log.
C4_CompletionAfterStopIsNoOp ==
    [][\A i \in 1..Len(bsess) :
        (/\ bsess[i].status = "stopping" /\ bsess'[i].status = "done"
         /\ ~st[bsess[i].tab].isBuilding)
        => /\ ~st'[bsess[i].tab].isBuilding
           /\ st'[bsess[i].tab].buildLogs = st[bsess[i].tab].buildLogs]_vars

\* C6 (as claimed, for builds): no start-build command is issued from a tab
\* while a build session started from that tab has neither delivered its
\* completion event nor been stopped.
C6_OneActiveBuildPerTab ==
    [][\A t \in TabIds :
        IssuesBuild(t)
        => \A i \in 1..Len(bsess) : bsess[i].tab = t => bsess[i].status \in {"stopping", "done"}]_vars

\* ------------------------------------------------------------ SpecTabs
\* Tabs are added and selected; the first tab has its inputs filled in, the
\* visible tab has its build started, and the engine's build events go to
\* the event bus.

NextTabs ==
    \/ Tick
    \/ AddTab
    \/ \E t \in TabIds : SelectTab(t)
    \/ SetGithubRepoUrl(InitialTabId, GithubUrl)
    \/ SetBaseCommit(InitialTabId, BaseCommitText)
    \/ \E q \in BagToSet(genReqs) : GenerateResponds(q, GatewaySuccess(q.of))
    \/ \E q \in BagToSet(chkReqs) : CheckResponds(q, TRUE)
    \/ \E t \in TabIds, i \in 1..(MaxUnits + 1) : ListenRegistered(t, i)
    \/ \E t \in TabIds : Len(bsess) < MaxSessions - 1 /\ HandleBuild(t)
    \/ \E i \in 1..MaxSessions : BuildAccepted(i)
    \/ \E i \in 1..Len(bsess) : bsess[i].n < MaxLines - 1 /\ BuildLog(i)
    \/ \E i \in 1..MaxSessions, p \in CompletionPayloads : BuildComplete(i, p)

SpecTabs == Init /\ [][NextTabs]_vars

\* C5 (as claimed, for build sessions): with two or more tabs open, the
\* output-line and completion events of a session started from one tab
\* change no other tab's build log, test log, isBuilding, isTesting or
\* isImageExists.
C5_EventsStayInTheirTab ==
    [][\A t \in Mounted :
        (/\ Len(tabs) >= 2
         /\ lastEv'.op \in {"buildLog", "buildComplete"}
         /\ lastEv'.tab # t)
        => /\ st'[t].buildLogs = st[t].buildLogs
           /\ st'[t].testLogs = st[t].testLogs
           /\ st'[t].isBuilding = st[t].isBuilding
           /\ st'[t].isTesting = st[t].isTesting
           /\ st'[t].isImageExists = st[t].isImageExists]_vars

\* C9 (as claimed): no start-build command is issued while the tab's
\* repository URL is blank, its selected commit is blank or its JSON text
\* does not parse.
C9_NoBuildOnInvalidInputs ==
    [][\A t \in TabIds :
        IssuesBuild(t)
        => /\ ~IsBlank(st[t].githubRepoUrl)
           /\ ~IsBlank(IF st[t].useHeadCommit THEN st[t].headCommit ELSE st[t].baseCommit)
           /\ validateJsonSyntax(st[t].jsonSpec)]_vars

\* the commented echoes of the gateway's semantic errors
ErrorEchoes == {<<"# Validation failed\n# ", e>> : e \in ErrorTexts}

\* C10 (as claimed, for the error echo): the build-file text passed to a
\* start-build command is never the commented echo of a gateway error.
C10_NoBuildOfErrorEcho ==
    [][\A t \in TabIds :
        IssuesBuild(t) => bsess'[Len(bsess')].cmd.dockerfileContent \notin ErrorEchoes]_vars

\* ---------------------------------------------------------- SpecLaunch
\* One tab, its inputs filled in once: build and test sessions are started
\* side by side; a start command fails to launch, or the session runs, emits
\* a line and completes with or without success, with or without a message.

NextLaunch ==
    \/ \E t \in TabIds : SetGithubRepoUrl(t, GithubUrl)
    \/ \E t \in TabIds : SetBaseCommit(t, BaseCommitText)
    \/ \E q \in BagToSet(genReqs) : GenerateResponds(q, GatewaySuccess(q.of))
    \/ \E q \in BagToSet(chkReqs) : CheckResponds(q, TRUE)
    \/ \E t \in TabIds, i \in 1..(MaxUnits + 1) : ListenRegistered(t, i)
    \/ \E t \in TabIds : Len(bsess) < MaxSessions /\ HandleBuild(t)
    \/ \E i \in 1..MaxSessions : BuildAccepted(i)
    \/ \E i \in 1..MaxSessions, e \in ErrorTexts : BuildLaunchFails(i, e)
    \/ \E i \in 1..Len(bsess) : bsess[i].n < MaxLines - 1 /\ BuildLog(i)
    \/ \E i \in 1..MaxSessions, p \in CompletionPayloads : BuildComplete(i, p)
    \/ \E t \in TabIds : Len(tsess) < MaxSessions /\ HandleTest(t)
    \/ \E i \in 1..MaxSessions : TestAccepted(i)
    \/ \E i \in 1..MaxSessions, e \in ErrorTexts : TestLaunchFails(i, e)
    \/ \E i \in 1..Len(tsess) : tsess[i].n < MaxLines - 1 /\ TestLog(i)
    \/ \E i \in 1..MaxSessions, p \in CompletionPayloads : TestComplete(i, p)

SpecLaunch == Init /\ [][NextLaunch]_vars

\* C11: when invoke("build_docker_image") throws, isBuilding is set to false
\* and exactly one line `ERROR: <message>` is appended to the build log,
\* while isTesting and the test log keep their values; when
\* invoke("run_docker_test") throws, the same holds with build and test
\* exchanged.
C11_LaunchFailureRollsBack ==
    [][\A t \in TabIds :
        /\ (lastEv'.op = "buildLaunchFails" /\ lastEv'.tab = t)
           => /\ ~st'[t].isBuilding
              /\ st'[t].buildLogs = Append(st[t].buildLogs, ErrorLine(lastEv'.payload.error))
              /\ st'[t].isTesting = st[t].isTesting
              /\ st'[t].testLogs = st[t].testLogs
        /\ (lastEv'.op = "testLaunchFails" /\ lastEv'.tab = t)
           => /\ ~st'[t].isTesting
              /\ st'[t].testLogs = Append(st[t].testLogs, ErrorLine(lastEv'.payload.error))
              /\ st'[t].isBuilding = st[t].isBuilding
              /\ st'[t].buildLogs = st[t].buildLogs]_vars

\* The build has just failed to launch while a test run started after it is
\* in progress with a line in its log.
C11_Witness ==
    /\ lastEv.op = "buildLaunchFails"
    /\ ~st[lastEv.tab].isBuilding
    /\ st[lastEv.tab].buildLogs = <<ErrorLine(lastEv.payload.error)>>
    /\ st[lastEv.tab].isTesting
    /\ st[lastEv.tab].testLogs # <<>>

NextHalt ==
    \/ \E t \in TabIds : SetGithubRepoUrl(t, GithubUrl)
    \/ \E t \in TabIds : SetBaseCommit(t, BaseCommitText)
    \/ \E q \in BagToSet(genReqs) : GenerateResponds(q, GatewaySuccess(q.of))
    \/ \E q \in BagToSet(chkReqs) : CheckResponds(q, TRUE)
    \/ \E t \in TabIds, i \in 1..(MaxUnits + 1) : ListenRegistered(t, i)
    \/ \E t \in TabIds : Len(bsess) < MaxSessions - 1 /\ HandleBuild(t)
    \/ \E i \in 1..MaxSessions : BuildAccepted(i)
    \/ \E i \in 1..Len(bsess) : bsess[i].n < MaxLines - 1 /\ BuildLog(i)
    \/ \E i \in 1..MaxSessions, p \in FailurePayloads : BuildComplete(i, p)
    \/ \E t \in TabIds : HandleStopBuild(t)
    \/ \E q \in BagToSet(stopReqs) : StopBuildResolves(q)
    \/ \E q \in BagToSet(stopReqs) : StopBuildThrows(q)
    \/ \E t \in TabIds : Len(tsess) < MaxSessions - 1 /\ HandleTest(t)
    \/ \E i \in 1..MaxSessions : TestAccepted(i)
    \/ \E i \in 1..Len(tsess) : tsess[i].n < MaxLines - 1 /\ TestLog(i)
    \/ \E i \in 1..MaxSessions, p \in FailurePayloads : TestComplete(i, p)
    \/ \E t \in TabIds : HandleStopTest(t)
    \/ \E q \in BagToSet(stopReqs) : StopTestResolves(q)
    \/ \E q \in BagToSet(stopReqs) : StopTestThrows(q)

SpecHalt == Init /\ [][NextHalt]_vars

\* C13: when invoke("stop_docker_build") resolves, isBuilding becomes false;
\* when it throws, isBuilding keeps its value; in both cases the build log,
\* the test log and isTesting keep their values.  The same holds for
\* invoke("stop_docker_test") with build and test exchanged.
C13_StopOnlyClearsItsFlag ==
    [][\A t \in TabIds :
        /\ (lastEv'.op = "stopBuildResolves" /\ lastEv'.tab = t)
           => st' = [st EXCEPT ![t].isBuilding = FALSE] /\ tsess' = tsess
        /\ (lastEv'.op = "stopBuildThrows" /\ lastEv'.tab = t)
           => st' = st /\ tsess' = tsess
        /\ (lastEv'.op = "stopTestResolves" /\ lastEv'.tab = t)
           => st' = [st EXCEPT ![t].isTesting = FALSE] /\ bsess' = bsess
        /\ (lastEv'.op = "stopTestThrows" /\ lastEv'.tab = t)
           => st' = st /\ bsess' = bsess]_vars

\* The build has just been stopped while a test run is in progress, with
\* lines in both logs.
C13_Witness ==
    /\ lastEv.op = "stopBuildResolves"
    /\ ~st[lastEv.tab].isBuilding
    /\ st[lastEv.tab].buildLogs # <<>>
    /\ st[lastEv.tab].isTesting
    /\ st[lastEv.tab].testLogs # <<>>

\* ------------------------------------------------------------ SpecTest
\* One tab: the JSON text is edited between its forms, the image is found
\* or not, and test runs are started at any moment, emit a line and fail,
\* while the user scrolls the test log.

NextTest ==
    \/ \E t \in TabIds : SetGithubRepoUrl(t, GithubUrl)
    \/ \E t \in TabIds : SetBaseCommit(t, BaseCommitText)
    \/ \E t \in TabIds, j \in JsonTexts : SetJsonSpec(t, j)
    \/ \E q \in BagToSet(genReqs) : GenerateResponds(q, GatewaySuccess(q.of))
    \/ \E q \in BagToSet(chkReqs), b \in BOOLEAN : CheckResponds(q, b)
    \/ \E t \in TabIds, i \in 1..(MaxUnits + 1) : ListenRegistered(t, i)
    \/ \E t \in TabIds : Len(tsess) < MaxSessions /\ HandleTest(t)
    \/ \E i \in 1..MaxSessions : TestAccepted(i)
    \/ \E i \in 1..Len(tsess) : tsess[i].n < MaxLines - 1 /\ TestLog(i)
    \/ \E i \in 1..MaxSessions, p \in FailurePayloads : TestComplete(i, p)
    \/ \E t \in TabIds, top \in ScrollTops : HandleTestScroll(t, top, 20, 10)

SpecTest == Init /\ [][NextTest]_vars

\* C14: handleTest issues no start-test command and leaves isTesting, the
\* test log and shouldAutoScrollTest as they are when isImageExists is
\* false, when a test is in progress, when the JSON text does not parse, or
\* when its test_cmd field is missing or blank.
C14_BlockedTestIsNoOp ==
    [][\A t \in TabIds :
        (/\ lastEv'.op = "handleTest" /\ lastEv'.tab = t
         /\ \/ ~st[t].isImageExists
            \/ st[t].isTesting
            \/ ~validateJsonSyntax(st[t].jsonSpec)
            \/ IsBlank(JsonParse(st[t].jsonSpec).test_cmd))
        => /\ tsess' = tsess
           /\ st'[t].isTesting = st[t].isTesting
           /\ st'[t].testLogs = st[t].testLogs
           /\ st'[t].shouldAutoScrollTest = st[t].shouldAutoScrollTest]_vars

\* handleTest has just returned on a blank test_cmd alone: the image exists,
\* no test is in progress, the JSON text parses, the test log has a line and
\* the user has scrolled away from its end.
C14_Witness ==
    /\ lastEv.op = "handleTest"
    /\ st[lastEv.tab].isImageExists /\ ~st[lastEv.tab].isTesting
    /\ st[lastEv.tab].jsonSpec = BlankTestCmdJson
    /\ st[lastEv.tab].testLogs # <<>>
    /\ ~st[lastEv.tab].shouldAutoScrollTest

\* -------------------------------------------------------------- SpecGw
\* One tab: its generation inputs are edited between pasted texts with
\* white space around them and white space alone, and the gateway answers
\* each request with a build file or a semantic error.

NextGw ==
    \/ \E t \in TabIds, u \in {Spaces, PaddedUrl} : SetGithubRepoUrl(t, u)
    \/ \E t \in TabIds, c \in {Spaces, PaddedCommit} : SetBaseCommit(t, c)
    \/ \E t \in TabIds : SetHeadCommit(t, HeadCommitText)
    \/ \E t \in TabIds, b \in BOOLEAN : SetUseHeadCommit(t, b)
    \/ \E t \in TabIds, j \in {DefaultJson, BrokenJson} : SetJsonSpec(t, j)
    \/ \E q \in BagToSet(genReqs) : GenerateResponds(q, GatewaySuccess(q.of))
    \/ \E q \in BagToSet(genReqs), e \in ErrorTexts : GenerateResponds(q, GatewayError(e))
    \/ \E q \in BagToSet(chkReqs) : CheckResponds(q, TRUE)

SpecGw == Init /\ [][NextGw]_vars

\* the input events that re-run the generation reaction
GenerationOps == {"setGithubRepoUrl", "setBaseCommit", "setHeadCommit", "setUseHeadCommit", "setJsonSpec"}

\* C15: after a change of a generation input the reaction has checked, in
\* this order, the JSON syntax, the repository URL for blankness and the
\* selected commit for blankness: on the first check that fails the matching
\* validation error and placeholder text are stored and no gateway request
\* is issued; a gateway request is issued only when all three checks pass.
C15_ChecksGateTheGateway ==
    [][\A t \in TabIds :
        (lastEv'.op \in GenerationOps /\ lastEv'.tab = t)
        => IF ~validateJsonSyntax(st'[t].jsonSpec)
           THEN /\ st'[t].validationError = <<"Invalid JSON syntax. Please fix the JSON before proceeding.">>
                /\ st'[t].generatedDockerfile = JsonSyntaxPlaceholder
                /\ genReqs' = genReqs
           ELSE IF IsBlank(st'[t].githubRepoUrl)
           THEN /\ st'[t].validationError = <<"GitHub repository URL is required for Dockerfile generation.">>
                /\ st'[t].generatedDockerfile = MissingUrlPlaceholder
                /\ genReqs' = genReqs
           ELSE IF IsBlank(IF st'[t].useHeadCommit THEN st'[t].headCommit ELSE st'[t].baseCommit)
           THEN /\ st'[t].validationError = <<IF st'[t].useHeadCommit THEN "Head" ELSE "Base", " commit is required for Dockerfile generation.">>
                /\ st'[t].generatedDockerfile = MissingCommitPlaceholder(st'[t].useHeadCommit)
                /\ genReqs' = genReqs
           ELSE BagCardinality(genReqs') = BagCardinality(genReqs) + 1]_vars

\* The JSON text has just been broken while the repository URL and the
\* selected commit are white space: the JSON syntax error is the one stored,
\* and no request is in flight.
C15_Witness ==
    /\ lastEv.op = "setJsonSpec"
    /\ st[lastEv.tab].jsonSpec = BrokenJson
    /\ st[lastEv.tab].githubRepoUrl = Spaces
    /\ st[lastEv.tab].baseCommit = Spaces /\ ~st[lastEv.tab].useHeadCommit
    /\ st[lastEv.tab].validationError = JsonSyntaxError
    /\ genReqs = EmptyBag

\* C16: a gateway request carries the JSON text, the trimmed repository URL
\* and the trimmed selected commit (the head commit iff useHeadCommit, else
\* the base commit) of the render that issued it; and when the gateway
\* answers with success and a build file and the tab has no other request
\* in flight, generatedDockerfile is the returned text and validationError
\* is null.
C16_RequestAndSuccess ==
    [][\A t \in TabIds :
        /\ (lastEv'.tab = t /\ BagCardinality(genReqs') > BagCardinality(genReqs))
           => genReqs' = genReqs (+) SetToBag({[tab |-> t,
                  of |-> [inputJson |-> st'[t].jsonSpec,
                          githubRepoUrl |-> Trim(st'[t].githubRepoUrl),
                          commit |-> Trim(IF st'[t].useHeadCommit THEN st'[t].headCommit ELSE st'[t].baseCommit)]]})
        /\ (/\ lastEv'.op = "generateResponds" /\ lastEv'.tab = t
            /\ lastEv'.payload.success /\ lastEv'.payload.dockerfile # <<>>
            /\ \A q \in BagToSet(genReqs') : q.tab # t)
           => /\ st'[t].generatedDockerfile = lastEv'.payload.dockerfile
              /\ st'[t].validationError = Null]_vars

\* The gateway has just answered the only request in flight, issued for a
\* padded URL and the head commit: the stored text is the one generated for
\* the trimmed URL and the head commit.
C16_Witness ==
    /\ lastEv.op = "generateResponds" /\ lastEv.payload.success
    /\ genReqs = EmptyBag
    /\ st[lastEv.tab].githubRepoUrl = PaddedUrl
    /\ st[lastEv.tab].useHeadCommit /\ st[lastEv.tab].baseCommit = PaddedCommit
    /\ st[lastEv.tab].generatedDockerfile = Dockerfile([inputJson |-> DefaultJson, githubRepoUrl |-> GithubUrl, commit |-> HeadCommitText])
    /\ st[lastEv.tab].validationError = Null

\* C17: a gateway answer is applied whatever the tab's inputs have become
\* since its request was issued: a success answer with a build file always
\* replaces generatedDockerfile and clears validationError.  (The state in
\* which they then belong to earlier inputs is C17_Witness.)
C17_AnswersAppliedUnsequenced ==
    [][\A t \in TabIds :
        (/\ lastEv'.op = "generateResponds" /\ lastEv'.tab = t
         /\ lastEv'.payload.success /\ lastEv'.payload.dockerfile # <<>>)
        => /\ st'[t].generatedDockerfile = lastEv'.payload.dockerfile
           /\ st'[t].validationError = Null]_vars

\* No request is in flight, the tab's inputs pass the three checks, and the
\* stored text is a build file the gateway generated for other inputs.
C17_Witness ==
    /\ lastEv.op = "generateResponds"
    /\ genReqs = EmptyBag
    /\ generateDockerfile(st[lastEv.tab], st[lastEv.tab]).requests # <<>>
    /\ st[lastEv.tab].validationError = Null
    /\ st[lastEv.tab].generatedDockerfile = lastEv.payload.dockerfile
    /\ st[lastEv.tab].generatedDockerfile # Dockerfile(GenerateRequest(st[lastEv.tab]))

\* the semantic error texts a gateway answer stores
SemanticErrors == {<<e>> : e \in ErrorTexts}

\* C18: when invoke("generate_docker_file") throws, the validation error
\* stored begins with "Failed to communicate with backend" and is none of the
\* semantic error texts, the generated text is the backend-error
\* placeholder, and the build and test sessions (flags, logs, commands) are
\* unchanged; and handleBuild issues no command while that error is stored.
C18_TransportFailure ==
    [][\A t \in TabIds :
        /\ (lastEv'.op = "generateThrows" /\ lastEv'.tab = t)
           => /\ st'[t].validationError = <<"Failed to communicate with backend: ", lastEv'.payload.error>>
              /\ st'[t].validationError \notin SemanticErrors
              /\ st'[t].generatedDockerfile = <<"# Backend error\n# Failed to generate Dockerfile">>
              /\ st'[t].isBuilding = st[t].isBuilding /\ st'[t].buildLogs = st[t].buildLogs
              /\ st'[t].isTesting = st[t].isTesting /\ st'[t].testLogs = st[t].testLogs
              /\ bsess' = bsess /\ tsess' = tsess
        /\ (/\ lastEv'.op = "handleBuild" /\ lastEv'.tab = t
            /\ st[t].validationError # Null
            /\ st[t].validationError[1] = "Failed to communicate with backend: ")
           => bsess' = bsess /\ st' = st]_vars

\* handleBuild has just returned at its guard with the communication error
\* as the only thing in its way.
C18_Witness ==
    /\ lastEv.op = "handleBuild"
    /\ st[lastEv.tab].validationError \in {CommunicationError(e) : e \in ErrorTexts}
    /\ st[lastEv.tab].generatedDockerfile = BackendErrorPlaceholder
    /\ st[lastEv.tab].isValidImageName /\ st[lastEv.tab].isValidJson /\ ~st[lastEv.tab].isBuilding
    /\ bsess = <<>>

\* C19: checkImageExists called with a blank name or with a name that fails
\* validateDockerImageName issues no existence query and sets isImageExists
\* to false.  It is so called by the existence effect of the render that
\* follows an edit to an invalid name (its validity flag is still that of
\* the old name), and by the build_complete callbacks of listeners that were
\* subscribed with such a name.
C19_InvalidNameIsNotQueried ==
    [][\A t \in TabIds :
        /\ (/\ lastEv'.op = "setImageName" /\ lastEv'.tab = t
            /\ st[t].isValidImageName
            /\ st'[t].imageName # <<>> /\ ~validateDockerImageName(st'[t].imageName))
           => chkReqs' = chkReqs /\ ~st'[t].isImageExists
        /\ (/\ lastEv'.op = "buildComplete" /\ lastEv'.payload.success
            /\ Called(lsn[t], "build") # <<>>
            /\ \A u \in Range(Called(lsn[t], "build")) : IsBlank(u.imageName) \/ ~validateDockerImageName(u.imageName))
           => chkReqs' = chkReqs /\ ~st'[t].isImageExists]_vars

\* A successful build has just completed in a tab whose only subscribed
\* build listener holds the blank name of the mount: nothing is asked, and
\* the image of the tab's valid name is taken not to exist.
C19_Witness ==
    /\ lastEv.op = "buildComplete" /\ lastEv.payload.success
    /\ Len(Called(lsn[lastEv.tab], "build")) = 1
    /\ Called(lsn[lastEv.tab], "build")[1].imageName = <<>>
    /\ st[lastEv.tab].isValidImageName
    /\ ~st[lastEv.tab].isImageExists
    /\ chkReqs = EmptyBag

\* C20: a step that issues an existence query leaves isCheckingImage true;
\* when the query answers, isImageExists is its boolean answer, and when it
\* fails, isImageExists is false; in both cases isCheckingImage is false
\* afterwards, and a failed query changes neither validationError nor a log.
C20_CheckStoresResult ==
    [][\A t \in TabIds :
        /\ (lastEv'.tab = t /\ BagCardinality(chkReqs') > BagCardinality(chkReqs))
           => st'[t].isCheckingImage
        /\ (lastEv'.op = "checkResponds" /\ lastEv'.tab = t)
           => st'[t].isImageExists = lastEv'.payload.success /\ ~st'[t].isCheckingImage
        /\ (lastEv'.op = "checkThrows" /\ lastEv'.tab = t)
           => /\ ~st'[t].isImageExists /\ ~st'[t].isCheckingImage
              /\ st'[t].validationError = st[t].validationError
              /\ st'[t].buildLogs = st[t].buildLogs
              /\ st'[t].testLogs = st[t].testLogs]_vars

\* The only existence query in flight, for the tab's valid name, has just
\* failed: the image is taken not to exist, no check is in progress and no
\* validation error is shown.
C20_Witness ==
    /\ lastEv.op = "checkThrows"
    /\ st[lastEv.tab].isValidImageName
    /\ st[lastEv.tab].imageName = ValidName
    /\ ~st[lastEv.tab].isImageExists /\ ~st[lastEv.tab].isCheckingImage
    /\ st[lastEv.tab].validationError = Null
    /\ chkReqs = EmptyBag

\* ------------------------------------------------------------------------
\* SpecImage: the image name of one tab, set by the URL and by hand, and the
\* existence queries it causes, answered by an engine whose images do not
\* change.

SshUrl == GitAtGithubCom \o <<"c", "/", "d">>

\* the images the engine holds
EngineImages == {DerivedName}

ImageUrls == {GithubUrl, SshUrl, OtherUrl, <<>>}

NextImage ==
    \/ \E t \in TabIds, url \in ImageUrls : SetGithubRepoUrl(t, url)
    \/ \E t \in TabIds, n \in {ValidName, InvalidName, <<>>} : SetImageName(t, n)
    \/ \E q \in BagToSet(chkReqs) : CheckResponds(q, q.of \in EngineImages)
    \/ \E t \in TabIds, i \in 1..(MaxUnits + 1) : ListenRegistered(t, i)
    \/ \E t \in TabIds, i \in 1..(MaxUnits + 1) : UnlistenDone(t, i)

SpecImage == Init /\ [][NextImage]_vars

\* what a query for the image name of the state s answers
EngineHolds(s) == validateDockerImageName(s.imageName) /\ Trim(s.imageName) \in EngineImages

HasQuery(t) == \E q \in BagToSet(chkReqs) : q.tab = t

\* C21 (as claimed): once no existence query of a tab is outstanding, its
\* isImageExists says whether the engine holds the image of its current
\* image name, in whatever order the answers arrived.
C21_FlagAgreesWithEngine == \A t \in Mounted : ~HasQuery(t) => (st[t].isImageExists <=> EngineHolds(st[t]))


\* C28: a change of the repository URL whose derived name is not empty sets
\* the image name to the derived name; one whose derived name is empty
\* leaves the image name as it was; and while the URL does not change only
\* an edit of the image name field changes the image name.
C28_DerivationOnUrlChange ==
    [][\A t \in TabIds :
        IF st'[t].githubRepoUrl # st[t].githubRepoUrl
        THEN st'[t].imageName = IF generateImageNameFromGitHubUrl(st'[t].githubRepoUrl) # <<>>
                                THEN generateImageNameFromGitHubUrl(st'[t].githubRepoUrl)
                                ELSE st[t].imageName
        ELSE lastEv'.op # "setImageName" => st'[t].imageName = st[t].imageName]_vars

\* the URL was just changed to one no name is derived from, and the image
\* name typed by hand before is still there
C28_Witness ==
    \E t \in Mounted :
        /\ lastEv.op = "setGithubRepoUrl" /\ lastEv.tab = t
        /\ st[t].githubRepoUrl = OtherUrl
        /\ st[t].imageName = ValidName

\* ------------------------------------------------------------------------
\* SpecApp: the tab bar (add, select, close) and the titles of the tabs; the
\* fields of the first tab are edited.

NextApp ==
    \/ Tick
    \/ AddTab
    \/ \E i \in 1..MaxTabs : CloseTab(i)
    \/ \E t \in TabIds : SelectTab(t)
    \/ SetGithubRepoUrl(InitialTabId, GithubUrl)
    \/ \E n \in {ValidName, <<>>} : SetImageName(InitialTabId, n)
    \/ \E q \in BagToSet(chkReqs) : CheckResponds(q, q.of \in EngineImages)
    \/ \E t \in TabIds, i \in 1..(MaxUnits + 1) : ListenRegistered(t, i)
    \/ \E t \in TabIds, i \in 1..(MaxUnits + 1) : UnlistenDone(t, i)

SpecApp == Init /\ [][NextApp]_vars

\* SpecSettings: the Docker path setting, loaded and saved while tabs are
\* added, selected and closed.

OtherPath == <<"/", "e">>

NextSettings ==
    \/ Tick
    \/ AddTab
    \/ \E i \in 1..MaxTabs : CloseTab(i)
    \/ \E t \in TabIds : SelectTab(t)
    \/ \E q \in BagToSet(pathReqs) : LoadResolves(q)
    \/ \E q \in BagToSet(pathReqs) : LoadThrows(q)
    \/ \E q \in BagToSet(pathReqs) : SaveLands(q)
    \/ \E q \in BagToSet(pathReqs) : SaveThrows(q)
    \/ \E path \in {<<>>, OtherPath} : SetDockerPath(path)

SpecSettings == Init /\ [][NextSettings]_vars

\* C22 (as claimed): the list of tabs is never empty.
C22_TabsNeverEmpty == tabs # <<>>


LoadPending == \E q \in BagToSet(pathReqs) : q.kind = "load"

SavePending == \E q \in BagToSet(pathReqs) : q.kind = "save"

\* C24 (as claimed): while the initial load of the Docker path has not
\* resolved no save is in flight, and the store still holds the path it
\* held at startup.
C24_NoSaveBeforeLoad == LoadPending => (~SavePending /\ persisted = SavedPath)

\* the title the claim describes
TitleOfNameThenUrl(s) ==
    IF s.imageName # <<>> THEN s.imageName
    ELSE IF generateImageNameFromGitHubUrl(s.githubRepoUrl) # <<>>
         THEN generateImageNameFromGitHubUrl(s.githubRepoUrl)
         ELSE Untitled

\* C25 (as claimed): the title of a tab is its image name if that is not
\* empty, else the name derived from its repository URL, else "Untitled".
C25_TitleFollowsNameThenUrl == \A i \in 1..Len(tabs) : tabs[i].title = TitleOfNameThenUrl(st[tabs[i].id])


\* ------------------------------------------------------------------------
\* SpecKeep: two builds and a test run of one tab, with a launch failure,
\* output lines, completions, a stop request and the existence re-check.

NextKeep ==
    \/ \E t \in TabIds : SetGithubRepoUrl(t, GithubUrl)
    \/ \E t \in TabIds : SetBaseCommit(t, BaseCommitText)
    \/ \E q \in BagToSet(genReqs) : GenerateResponds(q, GatewaySuccess(q.of))
    \/ \E q \in BagToSet(chkReqs) : CheckResponds(q, TRUE)
    \/ \E t \in TabIds, i \in 1..(MaxUnits + 1) : ListenRegistered(t, i)
    \/ \E t \in TabIds : Len(bsess) < MaxSessions /\ HandleBuild(t)
    \/ \E i \in 1..MaxSessions : BuildAccepted(i)
    \/ \E i \in 1..MaxSessions, e \in ErrorTexts : BuildLaunchFails(i, e)
    \/ \E i \in 1..Len(bsess) : bsess[i].n < MaxLines - 1 /\ BuildLog(i)
    \/ \E i \in 1..MaxSessions : BuildComplete(i, [success |-> TRUE, error |-> ""])
    \/ \E t \in TabIds : Len(tsess) < MaxSessions - 1 /\ HandleTest(t)
    \/ \E i \in 1..MaxSessions : TestAccepted(i)
    \/ \E i \in 1..Len(tsess) : tsess[i].n < MaxLines - 1 /\ TestLog(i)
    \/ \E i \in 1..MaxSessions, p \in FailurePayloads : TestComplete(i, p)
    \/ \E t \in TabIds : HandleStopTest(t)
    \/ \E q \in BagToSet(stopReqs) : StopTestResolves(q)

SpecKeep == Init /\ [][NextKeep]_vars


\* The test command a step issues for tab t, if it issues one.
IssuesTest(t) == Len(tsess') = Len(tsess) + 1 /\ tsess'[Len(tsess')].tab = t

\* C26: a log loses entries only when a session starts: every step that does
\* not start a build of the tab leaves its build log as it was or longer, and
\* every step that starts neither a build nor a test run of the tab leaves
\* its test log as it was or longer.
C26_LogsShrinkOnlyAtStart ==
    [][\A t \in TabIds :
        /\ ~IssuesBuild(t) => StartsWith(st'[t].buildLogs, st[t].buildLogs)
        /\ ~(IssuesBuild(t) \/ IssuesTest(t)) => StartsWith(st'[t].testLogs, st[t].testLogs)]_vars

\* the test run was stopped after its output and a failed completion were
\* logged, the build log holds the lines of a finished build, and both logs
\* are still there
C26_Witness ==
    \E t \in Mounted :
        /\ lastEv.op = "stopTestResolves" /\ lastEv.tab = t
        /\ Len(st[t].testLogs) >= 2 /\ st[t].buildLogs # <<>>
        /\ ~st[t].isBuilding /\ ~st[t].isTesting


\* ------------------------------------------------------------------------
\* SpecStream: the image name is edited while a build streams its output.

NextStream ==
    \/ \E t \in TabIds : SetGithubRepoUrl(t, GithubUrl)
    \/ \E t \in TabIds : SetBaseCommit(t, BaseCommitText)
    \/ \E t \in TabIds : SetImageName(t, ValidName)
    \/ \E q \in BagToSet(genReqs) : GenerateResponds(q, GatewaySuccess(q.of))
    \/ \E q \in BagToSet(chkReqs) : CheckResponds(q, FALSE)
    \/ \E t \in TabIds, i \in 1..(MaxUnits + 1) : ListenRegistered(t, i)
    \/ \E t \in TabIds, i \in 1..(MaxUnits + 1) : UnlistenDone(t, i)
    \/ \E t \in TabIds : Len(bsess) < MaxSessions - 1 /\ HandleBuild(t)
    \/ \E i \in 1..MaxSessions : BuildAccepted(i)
    \/ \E i \in 1..Len(bsess) : bsess[i].n < MaxLines /\ BuildLog(i)

SpecStream == Init /\ [][NextStream]_vars

\* the build units of tab t that the bus calls
BuildListeners(t) == {i \in 1..Len(lsn[t]) : lsn[t][i].channel = "build" /\ Listening(lsn[t][i])}

NoLineTwice(log) == \A i, j \in 1..Len(log) : i # j => log[i] # log[j]

\* C27 (as claimed): while the image name is edited during a build, at most
\* one build listener of the tab is registered at any time, and no output
\* line is in the build log twice.
C27_OneListenerNoDuplicates ==
    \A t \in Mounted : Cardinality(BuildListeners(t)) <= 1 /\ NoLineTwice(st[t].buildLogs)


\* ------------------------------------------------------------------------
\* SpecScroll: two builds and two test runs of one tab whose log containers
\* are scrolled while the first session of each kind streams its output.

NextScroll ==
    \/ \E t \in TabIds : SetGithubRepoUrl(t, GithubUrl)
    \/ \E t \in TabIds : SetBaseCommit(t, BaseCommitText)
    \/ \E q \in BagToSet(genReqs) : GenerateResponds(q, GatewaySuccess(q.of))
    \/ \E q \in BagToSet(chkReqs) : CheckResponds(q, TRUE)
    \/ \E t \in TabIds, i \in 1..(MaxUnits + 1) : ListenRegistered(t, i)
    \/ \E t \in TabIds : Len(bsess) < MaxSessions /\ HandleBuild(t)
    \/ \E i \in 1..MaxSessions : BuildAccepted(i)
    \/ \E i \in 1..Len(bsess) : i < MaxSessions /\ bsess[i].n < MaxLines - 1 /\ BuildLog(i)
    \/ \E i \in 1..MaxSessions : BuildComplete(i, [success |-> TRUE, error |-> ""])
    \/ \E t \in TabIds, top \in ScrollTops : HandleScroll(t, top, 20, 10)
    \/ \E t \in TabIds : ScrollToBottom(t)
    \/ \E t \in TabIds : Len(tsess) < MaxSessions /\ HandleTest(t)
    \/ \E i \in 1..MaxSessions : TestAccepted(i)
    \/ \E i \in 1..Len(tsess) : i < MaxSessions /\ tsess[i].n < MaxLines - 1 /\ TestLog(i)
    \/ \E i \in 1..MaxSessions : TestComplete(i, [success |-> TRUE, error |-> ""])
    \/ \E t \in TabIds, top \in ScrollTops : HandleTestScroll(t, top, 20, 10)
    \/ \E t \in TabIds : ScrollTestToBottom(t)

SpecScroll == Init /\ [][NextScroll]_vars

\* the pixels between the end of the viewport and the end of the content,
\* for the geometry a scroll event carries
ShortOfEnd(g) == g.scrollHeight - (g.scrollTop + g.clientHeight)

\* C29: auto-scroll of a log is on when its session starts; a scroll event
\* turns it off exactly when it leaves the viewport more than 5 pixels short
\* of the end, and on otherwise; "Scroll to bottom" turns it on; output lines
\* and completions leave it as it was.
C29_AutoScroll ==
    [][\A t \in TabIds :
        /\ IssuesBuild(t) => st'[t].shouldAutoScroll
        /\ IssuesTest(t) => st'[t].shouldAutoScrollTest
        /\ (lastEv'.op = "handleScroll" /\ lastEv'.tab = t)
           => /\ st'[t].shouldAutoScroll <=> ~(ShortOfEnd(lastEv'.payload) > 5)
              /\ st'[t].shouldAutoScrollTest = st[t].shouldAutoScrollTest
        /\ (lastEv'.op = "handleTestScroll" /\ lastEv'.tab = t)
           => /\ st'[t].shouldAutoScrollTest <=> ~(ShortOfEnd(lastEv'.payload) > 5)
              /\ st'[t].shouldAutoScroll = st[t].shouldAutoScroll
        /\ (lastEv'.op = "scrollToBottom" /\ lastEv'.tab = t) => st'[t].shouldAutoScroll
        /\ (lastEv'.op = "scrollTestToBottom" /\ lastEv'.tab = t) => st'[t].shouldAutoScrollTest
        /\ lastEv'.op \in {"buildLog", "buildComplete", "testLog", "testComplete"}
           => /\ st'[t].shouldAutoScroll = st[t].shouldAutoScroll
              /\ st'[t].shouldAutoScrollTest = st[t].shouldAutoScrollTest]_vars

\* the build log was scrolled to 6 pixels short of its end and is paused,
\* while the test log of the tab, whose second run was started, follows
C29_Witness ==
    \E t \in Mounted :
        /\ lastEv.op = "handleScroll" /\ lastEv.tab = t
        /\ ShortOfEnd(lastEv.payload) = 6
        /\ ~st[t].shouldAutoScroll
        /\ Len(tsess) = MaxSessions /\ st[t].shouldAutoScrollTest


\* ------------------------------------------------------------------------
\* SpecNames: an image name of any shape is typed into the image name field
\* of the initial tab, and its existence query is answered.

NameChars == {"a", "A", "_", ":", "/"}

\* the names typed: every text of NameChars up to MaxNameLen, a blank one,
\* and texts at and above the length limit
NameTexts ==
    UNION {[1..n -> NameChars] : n \in 1..MaxNameLen}
        \cup {Spaces, Repeat("a", MaxImageNameLen), Repeat("a", MaxImageNameLen + 1)}

NextNames ==
    \/ \E n \in NameTexts : SetImageName(InitialTabId, n)
    \/ \E q \in BagToSet(chkReqs) : CheckResponds(q, q.of \in EngineImages)

SpecNames == Init /\ [][NextNames]_vars

NameSeparators == {".", "_", "-"}

\* a name and an optional tag after one ':', each beginning and ending with
\* a lowercase letter or digit, with separators in between
NameAndTag(n) ==
    /\ \A i \in 1..Len(n) : n[i] \in NameAlnum \cup NameSeparators \cup {":"}
    /\ Cardinality({i \in 1..Len(n) : n[i] = ":"}) <= 1
    /\ n[1] \in NameAlnum /\ n[Len(n)] \in NameAlnum
    /\ \A i \in 2..(Len(n) - 1) : n[i] = ":" => n[i - 1] \in NameAlnum /\ n[i + 1] \in NameAlnum

NoSeparatorTwice(n) == \A i \in 1..(Len(n) - 1) : ~(n[i] \in NameSeparators /\ n[i + 1] \in NameSeparators)

NotBlankNorLong(n) == (\E i \in 1..Len(n) : n[i] \notin {" ", "\n"}) /\ Len(n) <= 128

UrlTexts ==
    {GithubUrl,
     GithubUrl \o DotGit,
     HttpGithubCom \o <<"A", "/", "B", "?", "x">>,
     HttpsGithubCom \o <<"a", "/", "b", "#", "x">>,
     HttpsGithubCom \o <<"a", "/", "b", "/", "t">>,
     SshUrl,
     HttpsGithubCom \o <<"a">>,
     HttpsGithubCom \o <<"a", "/">>,
     HttpsGithubCom \o <<"/", "b">>,
     HttpsGithubDev \o <<"a", "/", "b">>,
     <<"x", ".", "y", "/">> \o GithubComSlash \o <<"a", "/", "b">>,
     OtherUrl,
     Spaces}

NextUrls ==
    \/ \E url \in UrlTexts : SetGithubRepoUrl(InitialTabId, url)
    \/ \E q \in BagToSet(chkReqs) : CheckResponds(q, q.of \in EngineImages)
    \/ \E i \in 1..(MaxUnits + 1) : ListenRegistered(InitialTabId, i)
    \/ \E i \in 1..(MaxUnits + 1) : UnlistenDone(InitialTabId, i)

SpecUrls == Init /\ [][NextUrls]_vars

\* the owner and repository part of a URL of one of the three github.com
\* shapes, and nothing for any other URL
PathOnGithubCom(c) ==
    IF StartsWith(c, HttpsGithubCom) THEN DropFirst(c, Len(HttpsGithubCom))
    ELSE IF StartsWith(c, HttpGithubCom) THEN DropFirst(c, Len(HttpGithubCom))
    ELSE IF StartsWith(c, GitAtGithubCom) THEN DropFirst(c, Len(GitAtGithubCom))
    ELSE <<>>

\* the repository segment without its query and fragment
RepoOf(segment) == Split(Split(segment, "?")[1], "#")[1]

OwnerRepoName(parts) ==
    IF Len(parts) >= 2 /\ parts[1] # <<>> /\ RepoOf(parts[2]) # <<>>
    THEN ToLowerCase(parts[1]) \o <<"_", "_">> \o ToLowerCase(RepoOf(parts[2]))
    ELSE <<>>

\* the derived name the claim describes
NameOfGithubComUrl(url) == OwnerRepoName(Split(PathOnGithubCom(CleanUrl(url)), "/"))

\* C31 (as claimed): the name derived from a URL is the lower-cased
\* owner__repo for the three github.com shapes with a non-empty owner and
\* repository, and empty for every other URL; a URL edit stores the derived
\* name when it is not empty.
C31_DerivedOnlyFromGithubCom ==
    [][\A t \in TabIds :
        (lastEv'.op = "setGithubRepoUrl" /\ lastEv'.tab = t)
        => st'[t].imageName = IF NameOfGithubComUrl(st'[t].githubRepoUrl) # <<>>
                              THEN NameOfGithubComUrl(st'[t].githubRepoUrl)
                              ELSE st[t].imageName]_vars


\* ------------------------------------------------------------------------
\* SpecBoth: one build and one test run of a tab side by side, with every
\* event either can meet: launch failure, output, completion, stop.

NextBoth ==
    \/ \E t \in TabIds : SetGithubRepoUrl(t, GithubUrl)
    \/ \E t \in TabIds : SetBaseCommit(t, BaseCommitText)
    \/ \E q \in BagToSet(genReqs) : GenerateResponds(q, GatewaySuccess(q.of))
    \/ \E q \in BagToSet(chkReqs) : CheckResponds(q, TRUE)
    \/ \E t \in TabIds, i \in 1..(MaxUnits + 1) : ListenRegistered(t, i)
    \/ \E t \in TabIds : Len(bsess) < MaxSessions - 1 /\ HandleBuild(t)
    \/ \E i \in 1..MaxSessions : BuildAccepted(i)
    \/ \E i \in 1..MaxSessions, e \in ErrorTexts : BuildLaunchFails(i, e)
    \/ \E i \in 1..Len(bsess) : bsess[i].n < MaxLines - 1 /\ BuildLog(i)
    \/ \E i \in 1..MaxSessions, p \in CompletionPayloads : BuildComplete(i, p)
    \/ \E t \in TabIds : HandleStopBuild(t)
    \/ \E q \in BagToSet(stopReqs) : StopBuildResolves(q)
    \/ \E q \in BagToSet(stopReqs) : StopBuildThrows(q)
    \/ \E t \in TabIds : Len(tsess) < MaxSessions - 1 /\ HandleTest(t)
    \/ \E i \in 1..MaxSessions : TestAccepted(i)
    \/ \E i \in 1..MaxSessions, e \in ErrorTexts : TestLaunchFails(i, e)
    \/ \E i \in 1..Len(tsess) : tsess[i].n < MaxLines - 1 /\ TestLog(i)
    \/ \E i \in 1..MaxSessions, p \in CompletionPayloads : TestComplete(i, p)
    \/ \E t \in TabIds : HandleStopTest(t)
    \/ \E q \in BagToSet(stopReqs) : StopTestResolves(q)
    \/ \E q \in BagToSet(stopReqs) : StopTestThrows(q)
SpecBoth == Init /\ [][NextBoth]_vars

BuildOps == {"handleStopBuild", "stopBuildResolves", "stopBuildThrows", "buildAccepted", "buildLog", "buildComplete", "buildLaunchFails"}

TestOps == {"handleTest", "handleStopTest", "stopTestResolves", "stopTestThrows", "testAccepted", "testLog", "testComplete", "testLaunchFails"}

\* C32: the build and the test session of a tab are independent: stopping a
\* build, build output, build completion and build launch failure leave
\* isTesting and the test log as they were; every test operation and test
\* event leaves isBuilding and the build log as they were; handleBuild leaves
\* isTesting as it was and changes the test log only by emptying it when it
\* starts a build.
C32_BuildAndTestIndependent ==
    [][\A t \in TabIds :
        /\ lastEv'.op \in BuildOps
           => st'[t].isTesting = st[t].isTesting /\ st'[t].testLogs = st[t].testLogs
        /\ lastEv'.op \in TestOps
           => st'[t].isBuilding = st[t].isBuilding /\ st'[t].buildLogs = st[t].buildLogs
        /\ lastEv'.op = "handleBuild"
           => /\ st'[t].isTesting = st[t].isTesting
              /\ st'[t].testLogs = IF IssuesBuild(t) THEN <<>> ELSE st[t].testLogs]_vars

\* a build has just completed while a test run is in progress, and both
\* logs hold lines
C32_Witness ==
    \E t \in Mounted :
        /\ lastEv.op = "buildComplete" /\ lastEv.tab = t
        /\ ~st[t].isBuilding /\ st[t].isTesting
        /\ st[t].buildLogs # <<>> /\ st[t].testLogs # <<>>


\* ------------------------------------------------------------------------
\* SpecFair: one build of the first tab, started once the listeners of the
\* mount are registered, with edits of the image name while it runs.  The
\* bus and the engine answer every call they were sent: registrations,
\* releases, the launch and the queries are weakly fair.

AllLive(t) == \A i \in 1..Len(lsn[t]) : lsn[t][i].phase = "live"

NextFair ==
    \/ SetGithubRepoUrl(InitialTabId, GithubUrl)
    \/ SetBaseCommit(InitialTabId, BaseCommitText)
    \/ \E name \in {ValidName, DerivedName} : SetImageName(InitialTabId, name)
    \/ \E q \in BagToSet(genReqs) : GenerateResponds(q, GatewaySuccess(q.of))
    \/ \E q \in BagToSet(chkReqs) : CheckResponds(q, FALSE)
    \/ \E i \in 1..(MaxUnits + 1) : ListenRegistered(InitialTabId, i)
    \/ \E i \in 1..(MaxUnits + 1) : UnlistenDone(InitialTabId, i)
    \/ Len(bsess) < MaxSessions - 1 /\ AllLive(InitialTabId) /\ HandleBuild(InitialTabId)
    \/ \E i \in 1..MaxSessions : BuildAccepted(i)
    \/ \E i \in 1..Len(bsess) : bsess[i].n < MaxLines - 1 /\ BuildLog(i)
    \/ \E i \in 1..MaxSessions, p \in CompletionPayloads : BuildComplete(i, p)

Answered ==
    /\ WF_vars(\E q \in BagToSet(genReqs) : GenerateResponds(q, GatewaySuccess(q.of)))
    /\ WF_vars(\E q \in BagToSet(chkReqs) : CheckResponds(q, FALSE))
    /\ WF_vars(\E i \in 1..(MaxUnits + 1) : ListenRegistered(InitialTabId, i))
    /\ WF_vars(\E i \in 1..(MaxUnits + 1) : UnlistenDone(InitialTabId, i))
    /\ WF_vars(\E i \in 1..MaxSessions : BuildAccepted(i))

SpecFair == Init /\ [][NextFair]_vars /\ Answered

\* the engine has emitted the completion event of an accepted build of tab t
\* (SpecFair has no launch failure, so a session is done by its completion)
Completed(t) == \E i \in 1..Len(bsess) : bsess[i].tab = t /\ bsess[i].status = "done"

\* C33: once the engine has emitted the completion event of an accepted build
\* of a tab, and every registration and release is eventually carried out,
\* build-in-progress of that tab eventually becomes false, also when the
\* image name was edited during the build and the listeners re-established.
C33_CompletionEndsBuild == \A t \in TabIds : Completed(t) ~> ~st[t].isBuilding

\* ------------------------------------------------------------------------
\* SpecAgain: a build of the first tab is stopped and a second one started,
\* while the engine still emits the lines and the completion of the first.

NextAgain ==
    \/ SetGithubRepoUrl(InitialTabId, GithubUrl)
    \/ SetBaseCommit(InitialTabId, BaseCommitText)
    \/ \E q \in BagToSet(genReqs) : GenerateResponds(q, GatewaySuccess(q.of))
    \/ \E q \in BagToSet(chkReqs) : CheckResponds(q, FALSE)
    \/ \E i \in 1..(MaxUnits + 1) : ListenRegistered(InitialTabId, i)
    \/ Len(bsess) < MaxSessions /\ HandleBuild(InitialTabId)
    \/ \E i \in 1..MaxSessions : BuildAccepted(i)
    \/ \E i \in 1..Len(bsess) : bsess[i].n < MaxLines - 1 /\ BuildLog(i)
    \/ \E i \in 1..MaxSessions, p \in CompletionPayloads : BuildComplete(i, p)
    \/ stopReqs = EmptyBag /\ HandleStopBuild(InitialTabId)
    \/ \E q \in BagToSet(stopReqs) : StopBuildResolves(q)
    \/ \E q \in BagToSet(stopReqs) : StopBuildThrows(q)

SpecAgain == Init /\ [][NextAgain]_vars

\* session j is an unfinished build of its tab started after session i
LaterBuild(i, j) == i < j /\ bsess[j].tab = bsess[i].tab /\ bsess[j].status \in {"starting", "running"}

\* C34 (as claimed): the completion event of a stopped build session leaves
\* isBuilding as it was while a later build session of the tab is unfinished.
C34_StaleCompletionKeepsBuild ==
    [][\A i, j \in 1..Len(bsess) :
        (/\ bsess[i].status = "stopping" /\ bsess'[i].status = "done"
         /\ LaterBuild(i, j))
        => st'[bsess[i].tab].isBuilding = st[bsess[i].tab].isBuilding]_vars

\* C35 (as claimed): while a build session of a tab is unfinished and the tab
\* is building, every output line in the build log is a line of that session.
C35_LogOfRunningSession ==
    \A i, j \in 1..Len(bsess) :
        (LaterBuild(i, j) /\ st[bsess[j].tab].isBuilding)
        => \A k \in 1..Len(st[bsess[j].tab].buildLogs) : st[bsess[j].tab].buildLogs[k].sid # i

\* C36 (as claimed): isCheckingImage of a tab is true whenever an existence
\* query of the tab is outstanding, also a second one issued before the
\* first was answered, and false when none is.
C36_CheckingWhileOutstanding == \A t \in Mounted : st[t].isCheckingImage <=> HasQuery(t)

\* ------------------------------------------------------------------------
\* SpecPath: the engine path override is loaded and edited while the first
\* tab derives its image name, builds, and re-checks at the completion.

NextPath ==
    \/ SetGithubRepoUrl(InitialTabId, GithubUrl)
    \/ SetBaseCommit(InitialTabId, BaseCommitText)
    \/ \E q \in BagToSet(pathReqs) : LoadResolves(q)
    \/ \E q \in BagToSet(pathReqs) : SaveLands(q)
    \/ \E path \in {<<>>, OtherPath} : SetDockerPath(path)
    \/ \E q \in BagToSet(genReqs) : GenerateResponds(q, GatewaySuccess(q.of))
    \/ \E q \in BagToSet(chkReqs) : CheckResponds(q, TRUE)
    \/ \E i \in 1..(MaxUnits + 1) : ListenRegistered(InitialTabId, i)
    \/ \E i \in 1..(MaxUnits + 1) : UnlistenDone(InitialTabId, i)
    \/ Len(bsess) < MaxSessions - 1 /\ HandleBuild(InitialTabId)
    \/ \E i \in 1..MaxSessions : BuildAccepted(i)
    \/ \E i \in 1..MaxSessions : BuildComplete(i, [success |-> TRUE, error |-> ""])

SpecPath == Init /\ [][NextPath]_vars

\* a build_complete unit of the tab whose callback issues an existence query
Rechecks(t) == {i \in BuildListeners(t) : checkImageExists(st[t], lsn[t][i].imageName).queries # <<>>}

\* C37 (as claimed): the existence query that a successful build completion
\* issues passes the engine path override of the moment the event is
\* received, the value a start of a build at that moment would pass.
C37_RecheckPassesCurrentPath ==
    [][\A t \in TabIds :
        (lastEv'.op = "buildComplete" /\ lastEv'.payload.success)
        => \A i \in Rechecks(t) : CheckArguments(lsn[t][i].imageName, lsn[t][i].dockerPath).dockerPath = BuildArguments(st[t], dockerPath).dockerPath]_vars

\* C38 (as claimed): the ids of the tabs in the list are pairwise distinct,
\* and closing a tab removes exactly one entry of the list.
C38_TabIdsDistinct ==
    [][/\ \A i, j \in 1..Len(tabs') : i # j => tabs'[i].id # tabs'[j].id
       /\ lastEv'.op = "closeTab" => Len(tabs') = Len(tabs) - 1]_vars

\* C39 (as claimed): activeTabId is the id of a tab in the list, and addTab
\* appends the new tab at the end of the list and makes it the active tab.
C39_ActiveTabInList ==
    [][/\ activeTabId' \in TabIdsOf(tabs')
       /\ lastEv'.op = "addTab"
          => /\ Len(tabs') = Len(tabs) + 1
             /\ SubSeq(tabs', 1, Len(tabs)) = tabs
             /\ tabs'[Len(tabs')].id = activeTabId']_vars

\* ------------------------------------------------------------------------
\* SpecSingle: the single-screen App.  Its state, effects, handlers and
\* callbacks are those of a tab (without the engine path override), with one
\* difference: the effect that subscribes the build listeners has no
\* dependency, so the listeners of the mount stay for the life of the screen
\* and their callbacks close over the state of the first render.

\* the effects that follow an input event of the screen
AppInputEffects(old, r) == [InputEffects(old, r) EXCEPT !.resubscribe = FALSE]

AppSetGithubRepoUrl(url) == InputLands("setGithubRepoUrl", InitialTabId, SET_GITHUB_REPO_URL(st[InitialTabId], url), AppInputEffects(st[InitialTabId], SET_GITHUB_REPO_URL(st[InitialTabId], url)))

AppSetBaseCommit(commit) == InputLands("setBaseCommit", InitialTabId, SET_BASE_COMMIT(st[InitialTabId], commit), AppInputEffects(st[InitialTabId], SET_BASE_COMMIT(st[InitialTabId], commit)))

AppSetImageName(name) == InputLands("setImageName", InitialTabId, SET_IMAGE_NAME(st[InitialTabId], name), AppInputEffects(st[InitialTabId], SET_IMAGE_NAME(st[InitialTabId], name)))

NextSingle ==
    \/ AppSetGithubRepoUrl(GithubUrl)
    \/ AppSetBaseCommit(BaseCommitText)
    \/ \E name \in {ValidName, InvalidName} : AppSetImageName(name)
    \/ \E q \in BagToSet(genReqs) : GenerateResponds(q, GatewaySuccess(q.of))
    \/ \E q \in BagToSet(chkReqs), b \in BOOLEAN : CheckResponds(q, b)
    \/ \E i \in 1..MaxUnits : ListenRegistered(InitialTabId, i)
    \/ Len(bsess) < MaxSessions /\ HandleBuild(InitialTabId)
    \/ \E i \in 1..MaxSessions : BuildAccepted(i)
    \/ \E i \in 1..Len(bsess) : bsess[i].n < MaxLines - 1 /\ BuildLog(i)
    \/ \E i \in 1..MaxSessions, p \in CompletionPayloads : BuildComplete(i, p)

SpecSingle == Init /\ [][NextSingle]_vars

\* C40 (as claimed): a build_complete event with success = true that the
\* screen's listener receives issues exactly one existence query, for the
\* image name the screen has when the event arrives.
C40_RechecksCurrentName ==
    [][(/\ lastEv'.op = "buildComplete" /\ lastEv'.payload.success
        /\ BuildListeners(InitialTabId) # {})
       => chkReqs' = chkReqs (+) SetToBag({[tab |-> InitialTabId, of |-> Trim(st[InitialTabId].imageName)]})]_vars

====
